---------------------------- MODULE Spec2Model ----------------------------
(***************************************************************************)
(* Model of the reconciliation / identity-resolution core of               *)
(* reporting/device_certificate.py:                                        *)
(*   - the GPU identity resolver (_resolve_gpu_id,                         *)
(*     _find_remap_skipped_gpus, _build_gpu_id_map),                       *)
(*   - the issue filter and verdict derivation of generate_report,         *)
(*   - the storage merger extract_storage_details,                         *)
(*   - the NIC card grouping _group_nics_by_card and the enrichment        *)
(*     enrich_nics_from_lshw,                                              *)
(*   - the matrix row of render_test_matrix,                               *)
(*   - the size normalisers of the memory and storage extractors,          *)
(*   - the stress metrics of build_stress_metrics,                         *)
(*   - the memory extractors parse_lshw_dimms (with its speed chain) and   *)
(*     parse_machine_resources_dimms,                                      *)
(*   - the firmware-text speeds parse_dmidecode_dimm_speeds and their      *)
(*     merge enrich_dimm_speeds (step 4c of fetch_from_maas),              *)
(*   - the peripheral devices of extract_pci_devices.                      *)
(* Text is modelled as a sequence of one-character strings so that         *)
(* lower(), strip(), slicing, substring tests and the regular expression   *)
(* are computed character by character, as the Python code does.           *)
(***************************************************************************)
EXTENDS Integers, Sequences, FiniteSets, TLC

VARIABLES
    \* ---- GPU identity resolver ----
    n_gpus,         \* known accelerator count N
    remap_skipped,  \* the set `skipped` accumulated by _find_remap_skipped_gpus
    per_gpu,        \* result array of the test whose entries are resolved
    gpu_map,        \* list returned by _build_gpu_id_map for per_gpu
    map_pass1,      \* `mapping` as it stands after pass 1
    map_pass2,      \* `mapping` as it stands after pass 2
    statuses,       \* the status field of each entry of a rendered row
    cells,          \* cells_by_gpu of the rendered row
    metrics,        \* the list `metrics` of build_stress_metrics
    indexed,        \* the values gpu_id used to index metrics / cells_by_gpu
    gpc,            \* position of the resolver: "scan", "done"
    \* ---- issue filter / verdicts (generate_report) ----
    install, inventory, stress,  \* the three stage payloads (NoData when absent)
    all_issues,     \* filtered issue list
    verdicts,       \* list of (label, verdict)
    overall,        \* overall verdict
    ipc,            \* "input", "done"
    \* ---- storage merger (extract_storage_details) ----
    machine,            \* fleet-inventory record
    machine_resources,  \* resource-enumeration payload
    devs,               \* returned list
    spc,                \* "input", "done"
    \* ---- NIC grouping (_group_nics_by_card) ----
    nics,           \* input ports
    cards,          \* returned cards
    npc,            \* "input", "done"
    \* ---- NIC enrichment (enrich_nics_from_lshw) ----
    primary_nics,   \* the list `nics` before the call
    lshw_nics,      \* records of the secondary source
    enriched,       \* the list `nics` after the call (the returned list)
    epc,            \* "input", "done"
    \* ---- size normalisers ----
    size_text,      \* text of a <size> element / digits of a JSON size
    size_units,     \* units attribute of the <size> element
    mem_size_gb,    \* size_gb computed by parse_lshw_dimms
    lshw_disk_gb,   \* size_gb computed by parse_lshw_storage
    block_size_gb,  \* size_gb computed by extract_storage_details
    upc,            \* "input", "done"
    \* ---- hardware-tree memory extractor (parse_lshw_dimms) ----
    lshw_xml,       \* the payload: absent, unparseable, or a tree of nodes
    lshw_dimms,     \* returned list
    lpc,            \* "input", "done"
    \* ---- resource-document memory extractor (parse_machine_resources_dimms) ----
    resources,      \* the payload: absent, not a document, or a document
    res_dimms,      \* returned list
    res_warned,     \* whether the parse-error warning was printed
    rpc,            \* "input", "done"
    \* ---- firmware-text speeds (parse_dmidecode_dimm_speeds, enrich_dimm_speeds) ----
    dmi_text,       \* the dmidecode output: absent, or its lines
    dmi_speeds,     \* dict slot -> speed, in insertion order
    dimms_in,       \* the memory modules before enrichment
    dimms_out,      \* the memory modules after enrichment
    dpc,            \* "input", "done"
    \* ---- peripheral devices (extract_pci_devices) ----
    pci_resources,  \* the resource-enumeration payload, as far as the function reads it
    all_pci,        \* the list `all_pci` when the last loop starts
    pci_devices,    \* the returned dict of the lists network and storage
    ppc             \* "input", "done"

gpuVars   == <<n_gpus, remap_skipped, per_gpu, gpu_map, map_pass1, map_pass2,
               statuses, cells, metrics, indexed, gpc>>
issueVars == <<install, inventory, stress, all_issues, verdicts, overall, ipc>>
storVars  == <<machine, machine_resources, devs, spc>>
nicVars   == <<nics, cards, npc>>
enrVars   == <<primary_nics, lshw_nics, enriched, epc>>
unitVars  == <<size_text, size_units, mem_size_gb, lshw_disk_gb, block_size_gb, upc>>
lshwVars  == <<lshw_xml, lshw_dimms, lpc>>
resVars   == <<resources, res_dimms, res_warned, rpc>>
dmiVars   == <<dmi_text, dmi_speeds, dimms_in, dimms_out, dpc>>
pciVars   == <<pci_resources, all_pci, pci_devices, ppc>>
vars      == <<gpuVars, issueVars, storVars, nicVars, enrVars, unitVars, lshwVars, resVars, dmiVars, pciVars>>

(***************************************************************************)
(* Bounds                                                                  *)
(***************************************************************************)
MaxGpus    == 3   \* largest accelerator count explored
MaxResults == 3   \* longest per-test result array
MaxIssues  == 2   \* issues reported by the three stages together
MaxDisks   == 3   \* devices listed by the three storage sources together
MaxNics    == 3   \* network ports
MaxRow     == 2   \* longest result array of a rendered matrix row
MaxEnrich  == 3   \* primary ports and secondary records together
MaxNodes   == 2   \* <node> elements of a hardware tree
MaxDimms   == 2   \* memory entries of a resource document, both layouts together
MaxLines   == 4   \* lines of a firmware text
MaxPci     == 2   \* items of the four device lists of a payload together

(***************************************************************************)
(* Text helpers                                                            *)
(***************************************************************************)
UpperChars == <<"A","B","C","D","E","F","G","H","I","J","K","L","M","N","O","P","Q","R","S","T","U","V","W","X","Y","Z">>
LowerChars == <<"a","b","c","d","e","f","g","h","i","j","k","l","m","n","o","p","q","r","s","t","u","v","w","x","y","z">>
DigitChars == <<"0","1","2","3","4","5","6","7","8","9">>

Range(f) == {f[i] : i \in DOMAIN f}
SetMax(S) == CHOOSE x \in S : \A y \in S : y <= x
SetMin(S) == CHOOSE x \in S : \A y \in S : x <= y

UpperSet == Range(UpperChars)
DigitSet == Range(DigitChars)
WordSet  == Range(UpperChars) \cup Range(LowerChars) \cup Range(DigitChars) \cup {"_"}

IsUpper(c) == c \in UpperSet
IsDigit(c) == c \in DigitSet
IsSpace(c) == c = " "
IsWordChar(c) == c \in WordSet

\* str.lower(), one character
LowerChar(c) ==
    IF IsUpper(c) THEN LowerChars[CHOOSE i \in DOMAIN UpperChars : UpperChars[i] = c]
    ELSE c

\* str.lower()
Lower(s) == [i \in DOMAIN s |-> LowerChar(s[i])]

\* str.upper()
UpperChar(c) ==
    IF c \in Range(LowerChars)
    THEN UpperChars[CHOOSE i \in DOMAIN LowerChars : LowerChars[i] = c]
    ELSE c
Upper(s) == [i \in DOMAIN s |-> UpperChar(s[i])]

\* str.strip()
Strip(s) ==
    LET keep == {i \in DOMAIN s : ~IsSpace(s[i])}
    IN IF keep = {} THEN <<>> ELSE SubSeq(s, SetMin(keep), SetMax(keep))

\* `pat in s`
Contains(s, pat) ==
    \E i \in 1..(Len(s) - Len(pat) + 1) : SubSeq(s, i, i + Len(pat) - 1) = pat

\* s[:k]
Prefix(s, k) == SubSeq(s, 1, IF Len(s) < k THEN Len(s) ELSE k)

DigitVal(c) == (CHOOSE i \in DOMAIN DigitChars : DigitChars[i] = c) - 1

\* int() of a run of decimal digits
RECURSIVE DigitsToInt(_)
DigitsToInt(s) ==
    IF s = <<>> THEN 0
    ELSE 10 * DigitsToInt(SubSeq(s, 1, Len(s) - 1)) + DigitVal(s[Len(s)])

\* the decimal text of a small number
DigitStr(k) == <<DigitChars[k + 1]>>

\* optional values (Python None / a value)
None    == [some |-> FALSE, v |-> 0]
Some(x) == [some |-> TRUE, v |-> x]

(***************************************************************************)
(* Numbers                                                                 *)
(* Sizes exceed 32 bits, so an integer is a sign and a magnitude written   *)
(* as decimal digits; a float that came out of round(x, 1) is a sign and   *)
(* a number of tenths.  Division by 1024^k is exact in a double for the    *)
(* sizes at hand, so round(x, 1) rounds the exact quotient half to even.   *)
(* Division by 1000^3 is correctly rounded; the rounded double decides a   *)
(* quotient that lies exactly between two tenths, and no explored size     *)
(* is an odd multiple of 50,000,000.                                       *)
(***************************************************************************)
\* digits without leading zeros, "0" for zero
RECURSIVE StripZeros(_)
StripZeros(ds) ==
    IF Len(ds) > 1 /\ ds[1] = "0" THEN StripZeros(Tail(ds)) ELSE ds

IsZero(ds) == StripZeros(ds) = <<"0">>

\* long division of the digits ds by a small d, from digit k on
RECURSIVE LongDiv(_, _, _, _, _)
LongDiv(ds, d, k, rem, q) ==
    IF k > Len(ds) THEN [q |-> StripZeros(q), r |-> rem]
    ELSE LET cur == rem * 10 + DigitVal(ds[k])
         IN LongDiv(ds, d, k + 1, cur % d, q \o DigitStr(cur \div d))

DivSmall(ds, d) == LongDiv(ds, d, 1, 0, <<>>)

\* ds divided by d1 * d2 * ... : quotient digits, remainder and divisor
RECURSIVE DivChain(_, _)
DivChain(ds, divisors) ==
    IF divisors = <<>> THEN [q |-> StripZeros(ds), r |-> 0, d |-> 1]
    ELSE LET first == DivSmall(ds, Head(divisors))
             rest  == DivChain(first.q, Tail(divisors))
         IN [q |-> rest.q,
             r |-> first.r + Head(divisors) * rest.r,
             d |-> Head(divisors) * rest.d]

\* ds + 1
RECURSIVE IncDigits(_)
IncDigits(ds) ==
    IF ds = <<>> THEN <<"1">>
    ELSE IF ds[Len(ds)] = "9"
         THEN IncDigits(SubSeq(ds, 1, Len(ds) - 1)) \o <<"0">>
         ELSE SubSeq(ds, 1, Len(ds) - 1) \o DigitStr(DigitVal(ds[Len(ds)]) + 1)

IsOddDigits(ds) == DigitVal(ds[Len(ds)]) % 2 = 1

\* round(ds / (d1 * d2 * ...), 1) as a number of tenths
Tenths(ds, divisors) ==
    LET c == DivChain(Append(ds, "0"), divisors)
        up == 2 * c.r > c.d \/ (2 * c.r = c.d /\ IsOddDigits(c.q))
    IN IF up THEN IncDigits(c.q) ELSE c.q

\* int(text): Some([neg, mag]) or None for ValueError.  Surrounding
\* blanks and one sign are accepted; digit separators are not modelled.
IntText(text) ==
    LET t == Strip(text)
        signed == t # <<>> /\ t[1] \in {"-", "+"}
        ds == IF signed THEN Tail(t) ELSE t
    IN IF ds # <<>> /\ \A i \in DOMAIN ds : IsDigit(ds[i])
       THEN Some([neg |-> signed /\ t[1] = "-", mag |-> StripZeros(ds)])
       ELSE None

\* values of size_gb: the int 0 or raw_size itself, or a rounded float
IntValue(neg, mag) == [kind |-> "int", neg |-> neg /\ ~IsZero(mag), mag |-> mag]
FloatTenths(neg, tenths) == [kind |-> "float", neg |-> neg, mag |-> tenths]
IntZero == IntValue(FALSE, <<"0">>)

\* x > 0
IsPositive(x) == ~x.neg /\ ~IsZero(x.mag)

\* repr(): "16", "16.0", "-0.0"
Repr(x) ==
    LET sign == IF x.neg THEN <<"-">> ELSE <<>>
    IN IF x.kind = "int" THEN sign \o x.mag
       ELSE LET whole == IF Len(x.mag) = 1 THEN <<"0">>
                         ELSE SubSeq(x.mag, 1, Len(x.mag) - 1)
            IN sign \o whole \o <<".">> \o <<x.mag[Len(x.mag)]>>

(***************************************************************************)
(* GPU identity resolver                                                   *)
(***************************************************************************)
StrGPU          == <<"G","P","U">>
StrRowRemapping == <<"r","o","w"," ","r","e","m","a","p","p","i","n","g">>

\* info_to_str for an info field that is a str (a list of str is joined with
\* "; " first; the entries explored carry a str)
info_to_str(info) == Strip(info)

\* end of the maximal run of characters satisfying the class, from j (j-1 if none)
SpaceRunEnd(s, j) ==
    LET ks == {k \in j..Len(s) : \A m \in j..k : IsSpace(s[m])}
    IN IF ks = {} THEN j - 1 ELSE SetMax(ks)
DigitRunEnd(s, j) ==
    LET ks == {k \in j..Len(s) : \A m \in j..k : IsDigit(s[m])}
    IN IF ks = {} THEN j - 1 ELSE SetMax(ks)

\* does r'\bGPU\s+(\d+)\b' match starting at position i
GpuMatchAt(s, i) ==
    /\ i + 2 <= Len(s)
    /\ SubSeq(s, i, i + 2) = StrGPU
    /\ (i = 1 \/ ~IsWordChar(s[i - 1]))
    /\ LET se == SpaceRunEnd(s, i + 3)
           de == DigitRunEnd(s, se + 1)
       IN /\ se >= i + 3
          /\ de >= se + 1
          /\ (de = Len(s) \/ ~IsWordChar(s[de + 1]))

\* group(1) of the last match instead of the first
GpuSearchLast(s) ==
    LET starts == {i \in DOMAIN s : GpuMatchAt(s, i)}
    IN IF starts = {} THEN None
       ELSE LET i  == SetMax(starts)
                se == SpaceRunEnd(s, i + 3)
                de == DigitRunEnd(s, se + 1)
            IN Some(DigitsToInt(SubSeq(s, se + 1, de)))

\* re.search(r'\bGPU\s+(\d+)\b', info): group(1) of the first match, as int
GpuSearch(s) ==
    LET starts == {i \in DOMAIN s : GpuMatchAt(s, i)}
    IN IF starts = {} THEN None
       ELSE LET i  == SetMin(starts)
                se == SpaceRunEnd(s, i + 3)
                de == DigitRunEnd(s, se + 1)
            IN Some(DigitsToInt(SubSeq(s, se + 1, de)))

\* the gpu_id field: absent, an integer, or a string
NoId      == [t |-> "none", v |-> 0, s |-> <<>>]
IntId(g)  == [t |-> "int",  v |-> g, s |-> <<>>]
StrId(s)  == [t |-> "str",  v |-> 0, s |-> s]

\* int(gid): Some(value), or None when int() raises ValueError/TypeError
IntOf(gid) ==
    IF gid.t = "int" THEN Some(gid.v)
    ELSE IF gid.s # <<>> /\ \A i \in DOMAIN gid.s : IsDigit(gid.s[i])
         THEN Some(DigitsToInt(gid.s))
         ELSE None

_resolve_gpu_id_info_first(r) ==
    LET m == GpuSearch(info_to_str(r.info))
    IN IF m.some THEN m
       ELSE IF r.gpu_id.t # "none" THEN IntOf(r.gpu_id) ELSE None

_resolve_gpu_id(r) ==
    IF r.gpu_id.t # "none" /\ IntOf(r.gpu_id).some
    THEN IntOf(r.gpu_id)
    ELSE GpuSearch(info_to_str(r.info))

\* "row remapping" in info_to_str(r.get("info", "")).lower()
HasRowRemapping(r) == Contains(Lower(info_to_str(r.info)), StrRowRemapping)

\* ---- inputs of the resolver ----
InfoOk          == <<"o","k">>
InfoGpu(k)      == <<"G","P","U"," ">> \o DigitStr(k) \o <<" ","o","k">>
InfoRemap       == <<"S","k","i","p",":"," ","R","o","w"," ","R","e","m","a","p","p","i","n","g">>
InfoGpuRemap(k) == <<"G","P","U"," ">> \o DigitStr(k) \o <<" ">> \o StrRowRemapping
InfoTwoGpus(j, k) ==
    <<"G","P","U"," ">> \o DigitStr(j) \o <<" ","a","n","d"," ","G","P","U"," ">> \o DigitStr(k)
StrAbc          == <<"a","b","c">>

Entry(gid, info) == [gpu_id |-> gid, info |-> info]

\* result entries explored for accelerator count n
Entries(n) ==
    {Entry(IntId(g), InfoOk) : g \in (-1)..n}
    \cup {Entry(StrId(StrAbc), InfoGpu(n - 1)),
          Entry(NoId, InfoOk),
          Entry(NoId, InfoRemap),
          Entry(IntId(0), InfoGpuRemap(n - 1))}

\* further entries, explored in the report that holds a single test
MoreEntries(n) ==
    {Entry(NoId, InfoTwoGpus(n - 1, 9)),
     Entry(NoId, InfoTwoGpus(9, 0)),
     Entry(IntId(n), InfoGpu(0))}

RECURSIVE ArraysOfLen(_, _)
ArraysOfLen(n, k) ==
    IF k = 0 THEN {<<>>}
    ELSE {Append(a, e) : a \in ArraysOfLen(n, k - 1), e \in Entries(n)}

\* result arrays of a test of the report
TestArrays(n) == UNION {ArraysOfLen(n, k) : k \in 0..MaxResults}

\* result arrays of the only test of a report
RECURSIVE SingleArraysOfLen(_, _)
SingleArraysOfLen(n, k) ==
    IF k = 0 THEN {<<>>}
    ELSE {Append(a, e) : a \in SingleArraysOfLen(n, k - 1),
                         e \in Entries(n) \cup MoreEntries(n)}
SingleTestArrays(n) == UNION {SingleArraysOfLen(n, k) : k \in 0..MaxResults}

\* entries of the reports on which the indexing of the per-accelerator
\* lists is explored, for accelerator counts from 0 on: explicit ids below,
\* inside and above the range, anonymous entries, a row-remapping skip
InfoMemPct == <<"u","s","e","d"," ","(","9","5",".","5","%",")">>
SlotEntries(n) ==
    {Entry(IntId(g), InfoMemPct) : g \in {-1, 0, n}}
    \cup {Entry(NoId, InfoMemPct), Entry(NoId, InfoRemap), Entry(IntId(0), InfoOk)}

RECURSIVE SlotArraysOfLen(_, _)
SlotArraysOfLen(n, k) ==
    IF k = 0 THEN {<<>>}
    ELSE {Append(a, e) : a \in SlotArraysOfLen(n, k - 1), e \in SlotEntries(n)}
SlotArrays(n) == UNION {SlotArraysOfLen(n, k) : k \in 0..MaxResults}

\* _resolve_gpu_id and the row-remapping test, tabulated over the entries
AllEntries ==
    UNION {Entries(n) \cup MoreEntries(n) : n \in 1..MaxGpus}
    \cup UNION {SlotEntries(n) : n \in 0..MaxGpus}
ResolvedId == [e \in AllEntries |-> _resolve_gpu_id(e)]
IsRemapEntry == [e \in AllEntries |-> HasRowRemapping(e)]

\* one iteration of the loop over tests in _find_remap_skipped_gpus:
\* the ids this test adds to `skipped`
SkippedByTest(results, n) ==
    LET gids == [i \in DOMAIN results |-> ResolvedId[results[i]]]
        found_ids == {gids[i].v : i \in {j \in DOMAIN results :
                                            /\ gids[j].some
                                            /\ 0 <= gids[j].v /\ gids[j].v < n}}
        has_remap_skip == \E i \in DOMAIN results : IsRemapEntry[results[i]]
    IN IF has_remap_skip /\ found_ids # {} THEN (0..(n - 1)) \ found_ids ELSE {}

\* sorted(S, reverse=True)
RECURSIVE SortedDesc(_)
SortedDesc(S) ==
    IF S = {} THEN <<>>
    ELSE LET m == SetMax(S) IN <<m>> \o SortedDesc(S \ {m})

\* sorted(S) as a sequence
RECURSIVE Sorted(_)
Sorted(S) ==
    IF S = {} THEN <<>>
    ELSE LET m == SetMin(S) IN <<m>> \o Sorted(S \ {m})

\* [i for i in range(n) if P(i)] as a sequence, for a set of indices
RECURSIVE IndexList(_)
IndexList(S) ==
    IF S = {} THEN <<>>
    ELSE LET i == SetMin(S) IN <<i>> \o IndexList(S \ {i})

\* {g for g in mapping if g}: the truthiness test drops id 0
KnownIdsTruthy(mapping) ==
    {mapping[i].v : i \in {j \in DOMAIN mapping : mapping[j].some /\ mapping[j].v # 0}}

\* {g for g in mapping if g is not None}
KnownIds(mapping) == {mapping[i].v : i \in {j \in DOMAIN mapping : mapping[j].some}}

\* zip(indices, ids) applied to mapping
ZipAssign(mapping, indices, ids) ==
    LET k == IF Len(indices) < Len(ids) THEN Len(indices) ELSE Len(ids)
    IN [i \in DOMAIN mapping |->
          IF \E p \in 1..k : indices[p] = i
          THEN Some(ids[CHOOSE p \in 1..k : indices[p] = i])
          ELSE mapping[i]]

\* Pass 1: resolve from gpu_id field or info string (positions are 1-based here)
Pass1NoRangeCheck(results, n) ==
    [i \in DOMAIN results |-> ResolvedId[results[i]]]

Pass1(results, n) ==
    [i \in DOMAIN results |->
        LET gid == ResolvedId[results[i]]
        IN IF gid.some /\ 0 <= gid.v /\ gid.v < n THEN gid ELSE None]

\* Pass 2 taking every unresolved entry for a row-remapping entry
Pass2AllUnresolved(mapping, results, skipped) ==
    LET remap_indices == IndexList({i \in DOMAIN results : ~mapping[i].some})
        unassigned_remap == Sorted(skipped \ KnownIds(mapping))
    IN IF remap_indices # <<>> /\ Len(remap_indices) = Len(unassigned_remap)
       THEN ZipAssign(mapping, remap_indices, unassigned_remap)
       ELSE mapping

\* Pass 2 without the length comparison
Pass2AnyCount(mapping, results, skipped) ==
    LET remap_indices == IndexList({i \in DOMAIN results :
                                      ~mapping[i].some /\ IsRemapEntry[results[i]]})
        unassigned_remap == Sorted(skipped \ KnownIds(mapping))
    IN IF remap_indices # <<>>
       THEN ZipAssign(mapping, remap_indices, unassigned_remap)
       ELSE mapping

\* Pass 2: assign row-remapping skip entries
Pass2(mapping, results, skipped) ==
    LET remap_indices == IndexList({i \in DOMAIN results :
                                      ~mapping[i].some /\ IsRemapEntry[results[i]]})
        unassigned_remap == Sorted(skipped \ KnownIds(mapping))
    IN IF remap_indices # <<>> /\ Len(remap_indices) = Len(unassigned_remap)
       THEN ZipAssign(mapping, remap_indices, unassigned_remap)
       ELSE mapping

\* Pass 3 that never fills by elimination
Pass3IndexOnly(mapping, n) ==
    [i \in DOMAIN mapping |->
        IF mapping[i].some THEN mapping[i]
        ELSE IF i - 1 < n THEN Some(i - 1) ELSE Some(0)]

\* Pass 3 whose last resort is the array index, whatever its size
Pass3NoClamp(mapping, n) ==
    LET known_ids == KnownIds(mapping)
        missing_ids == Sorted((0..(n - 1)) \ known_ids)
        unknown_indices == IndexList({i \in DOMAIN mapping : ~mapping[i].some})
    IN IF Len(missing_ids) = Len(unknown_indices)
       THEN ZipAssign(mapping, unknown_indices, missing_ids)
       ELSE [i \in DOMAIN mapping |->
               IF mapping[i].some THEN mapping[i] ELSE Some(i - 1)]

\* Pass 3: fill remaining unknowns by elimination, else by array index.
\* Array index idx of the code is position i - 1 here.
Pass3(mapping, n) ==
    LET known_ids == KnownIds(mapping)
        missing_ids == Sorted((0..(n - 1)) \ known_ids)
        unknown_indices == IndexList({i \in DOMAIN mapping : ~mapping[i].some})
    IN IF Len(missing_ids) = Len(unknown_indices)
       THEN ZipAssign(mapping, unknown_indices, missing_ids)
       ELSE [i \in DOMAIN mapping |->
               IF mapping[i].some THEN mapping[i]
               ELSE IF i - 1 < n THEN Some(i - 1) ELSE Some(0)]

_build_gpu_id_map(results_list, n, skipped) ==
    Pass3(Pass2(Pass1(results_list, n), results_list, skipped), n)

\* what one test of the report can add to `skipped`, per accelerator count
SkippedContributions ==
    [n \in 1..MaxGpus |-> {SkippedByTest(t, n) : t \in TestArrays(n)}]

\* ---- resolver state machine ----
nonGpuVars == <<issueVars, storVars, nicVars, enrVars, unitVars, lshwVars, resVars, dmiVars, pciVars>>

GpuIdle ==
    /\ n_gpus = 0 /\ remap_skipped = {}
    /\ per_gpu = <<>> /\ gpu_map = <<>> /\ gpc = "idle"
    /\ map_pass1 = <<>> /\ map_pass2 = <<>>
    /\ statuses = <<>> /\ cells = <<>>
    /\ metrics = <<>> /\ indexed = {}

GpuInit ==
    /\ n_gpus \in 1..MaxGpus
    /\ remap_skipped = {}
    /\ per_gpu = <<>>
    /\ gpu_map = <<>>
    /\ map_pass1 = <<>> /\ map_pass2 = <<>>
    /\ statuses = <<>> /\ cells = <<>>
    /\ metrics = <<>> /\ indexed = {}
    /\ gpc = "scan"

\* _find_remap_skipped_gpus, one iteration of `for t in diag["test_results"]`
\* over another test t of the report
ScanTest ==
    /\ gpc = "scan"
    /\ \E found \in SkippedContributions[n_gpus] :
          remap_skipped' = remap_skipped \cup found
    /\ UNCHANGED <<n_gpus, per_gpu, gpu_map, map_pass1, map_pass2, statuses, cells,
                   metrics, indexed, gpc>>
    /\ UNCHANGED nonGpuVars

\* build_stress_metrics / render_test_matrix reach the test with result
\* array a: the scan of _find_remap_skipped_gpus has covered that test too,
\* then _build_gpu_id_map is called with the completed skipped set
ResolveTest ==
    /\ gpc = "scan"
    /\ \E a \in TestArrays(n_gpus) :
          LET skipped == remap_skipped \cup SkippedByTest(a, n_gpus)
              p1 == Pass1(a, n_gpus)
              p2 == Pass2(p1, a, skipped)
          IN /\ per_gpu' = a
             /\ remap_skipped' = skipped
             /\ map_pass1' = p1
             /\ map_pass2' = p2
             /\ gpu_map' = Pass3(p2, n_gpus)
    /\ gpc' = "done"
    /\ UNCHANGED <<n_gpus, statuses, cells, metrics, indexed>>
    /\ UNCHANGED nonGpuVars

\* a report whose test_results holds one test
GpuSingleInit ==
    /\ n_gpus \in 1..MaxGpus
    /\ remap_skipped = {}
    /\ per_gpu = <<>>
    /\ gpu_map = <<>>
    /\ map_pass1 = <<>> /\ map_pass2 = <<>>
    /\ statuses = <<>> /\ cells = <<>>
    /\ metrics = <<>> /\ indexed = {}
    /\ gpc = "single"

\* build_stress_metrics on that report: _find_remap_skipped_gpus scans the
\* one test, _build_gpu_id_map resolves its array
ResolveSingleTest ==
    /\ gpc = "single"
    /\ \E a \in SingleTestArrays(n_gpus) :
          LET skipped == SkippedByTest(a, n_gpus)
              p1 == Pass1(a, n_gpus)
              p2 == Pass2(p1, a, skipped)
          IN /\ per_gpu' = a
             /\ remap_skipped' = skipped
             /\ map_pass1' = p1
             /\ map_pass2' = p2
             /\ gpu_map' = Pass3(p2, n_gpus)
    /\ gpc' = "done"
    /\ UNCHANGED <<n_gpus, statuses, cells, metrics, indexed>>
    /\ UNCHANGED nonGpuVars

(***************************************************************************)
(* Test matrix (render_test_matrix), one row                               *)
(* A cell is named by the class and the text of its span.                  *)
(***************************************************************************)
StrPass == <<"p","a","s","s">>
StrFail == <<"f","a","i","l">>
StrWarn == <<"w","a","r","n">>
StrSkip == <<"s","k","i","p">>

CellUnknown == [class |-> "dot-skip", text |-> "?"]
CellPass    == [class |-> "dot-pass", text |-> "&#10003;"]
CellFail    == [class |-> "dot-fail", text |-> "&#10007;"]
CellWarn    == [class |-> "dot-warn", text |-> "!"]
CellSkip    == [class |-> "dot-skip", text |-> "&mdash;"]

\* the if/elif chain on r.get("status", "?").lower()
CellOf(status) ==
    LET st == Lower(status)
    IN IF Contains(st, StrPass) THEN CellPass
       ELSE IF Contains(st, StrFail) THEN CellFail
       ELSE IF Contains(st, StrWarn) THEN CellWarn
       ELSE IF Contains(st, StrSkip) THEN CellSkip
       ELSE CellUnknown

\* cells_by_gpu with every column preset to a pass
InitialCellsPass(n) == [g \in 1..n |-> CellPass]

\* ['<td><span class="dot-skip">?</span></td>'] * n_gpus
InitialCells(n) == [g \in 1..n |-> CellUnknown]

\* the loop `for idx, r in enumerate(per_gpu)` from entry k on; column
\* gpu_id of the code is position gpu_id + 1 here
RECURSIVE FillCells(_, _, _, _, _)
FillCells(cs, gmap, sts, n, k) ==
    IF k > Len(gmap) THEN cs
    ELSE LET gpu_id == gmap[k].v
         IN IF gpu_id >= n
            THEN FillCells(cs, gmap, sts, n, k + 1)
            ELSE FillCells([cs EXCEPT ![gpu_id + 1] = CellOf(sts[k])],
                           gmap, sts, n, k + 1)

cells_by_gpu(gmap, sts, n) == FillCells(InitialCells(n), gmap, sts, n, 1)

\* an entry goes on to index the list whatever its gpu_id
PassesGuardAlways(gpu_id, n) == TRUE

\* `if gpu_id >= n_gpus: continue` in both loops over enumerate(per_gpu)
PassesGuard(gpu_id, n) == ~(gpu_id >= n)

\* the values of gpu_id with which the loop goes on to index its list
IndexedSlots(gmap, n) ==
    {gmap[k].v : k \in {j \in DOMAIN gmap : PassesGuard(gmap[j].v, n)}}

\* ---- inputs ----
StatusPass    == <<"P","A","S","S">>
StatusFail    == <<"F","a","i","l">>
StatusWarning == <<"W","a","r","n","i","n","g">>
StatusSkipped == <<"S","k","i","p","p","e","d">>
StatusOther   == <<"n","/","a">>
StatusTexts == {StatusPass, StatusFail, StatusWarning, StatusSkipped, StatusOther}

RowEntries(n) ==
    {Entry(IntId(g), InfoOk) : g \in 0..(n - 1)}
    \cup {Entry(NoId, InfoOk), Entry(NoId, InfoRemap)}

RECURSIVE RowsOfLen(_, _)
RowsOfLen(n, k) ==
    IF k = 0 THEN {<<>>}
    ELSE {Append(a, e) : a \in RowsOfLen(n, k - 1), e \in RowEntries(n)}
RowArrays(n) == UNION {RowsOfLen(n, k) : k \in 0..MaxRow}

\* ---- state machine ----
GpuMatrixInit ==
    /\ n_gpus \in 1..MaxGpus
    /\ remap_skipped = {}
    /\ per_gpu = <<>>
    /\ gpu_map = <<>>
    /\ map_pass1 = <<>> /\ map_pass2 = <<>>
    /\ statuses = <<>> /\ cells = <<>>
    /\ metrics = <<>> /\ indexed = {}
    /\ gpc = "matrix"

\* _find_remap_skipped_gpus called by render_test_matrix, one iteration
\* over another test of the report
ScanTestForMatrix ==
    /\ gpc = "matrix"
    /\ \E found \in SkippedContributions[n_gpus] :
          remap_skipped' = remap_skipped \cup found
    /\ UNCHANGED <<n_gpus, per_gpu, gpu_map, map_pass1, map_pass2, statuses, cells,
                   metrics, indexed, gpc>>
    /\ UNCHANGED nonGpuVars

\* render_test_matrix, one iteration of `for t in results`: the row of a
\* test with result array a whose entries carry the statuses sts
RenderRow ==
    /\ gpc = "matrix"
    /\ \E a \in RowArrays(n_gpus) :
          LET skipped == remap_skipped \cup SkippedByTest(a, n_gpus)
              p1 == Pass1(a, n_gpus)
              p2 == Pass2(p1, a, skipped)
              gm == Pass3(p2, n_gpus)
          IN \E sts \in [DOMAIN a -> StatusTexts] :
                /\ per_gpu' = a
                /\ statuses' = sts
                /\ remap_skipped' = skipped
                /\ map_pass1' = p1
                /\ map_pass2' = p2
                /\ gpu_map' = gm
                /\ cells' = cells_by_gpu(gm, sts, n_gpus)
                /\ indexed' = IndexedSlots(gm, n_gpus)
    /\ gpc' = "rendered"
    /\ UNCHANGED <<n_gpus, metrics>>
    /\ UNCHANGED nonGpuVars

(***************************************************************************)
(* Stress metrics (build_stress_metrics) and the indexing of the           *)
(* per-accelerator lists                                                   *)
(* metrics is a list of n_gpus dicts, a dict being a set of <<key, value>> *)
(* pairs.  Of the chain on the test name the branch of "memory" is         *)
(* modelled; the other four differ in the pattern and the key only.        *)
(***************************************************************************)
\* end of the maximal run of [\d.] from j (j-1 if none)
NumberRunEnd(s, j) ==
    LET ks == {k \in j..Len(s) : \A m \in j..k : IsDigit(s[m]) \/ s[m] = "."}
    IN IF ks = {} THEN j - 1 ELSE SetMax(ks)

\* does r'\(([\d.]+)%\)' match starting at position i
PctMatchAt(s, i) ==
    /\ s[i] = "("
    /\ LET e == NumberRunEnd(s, i + 1)
       IN e >= i + 1 /\ e + 2 <= Len(s) /\ s[e + 1] = "%" /\ s[e + 2] = ")"

\* extract_num(info, r'\(([\d.]+)%\)')
MemPct(s) ==
    LET starts == {i \in DOMAIN s : PctMatchAt(s, i)}
    IN IF starts = {} THEN None
       ELSE LET i == SetMin(starts)
            IN Some(SubSeq(s, i + 1, NumberRunEnd(s, i + 1)))

\* d[key] = val
DictSet(dict, key, val) == {kv \in dict : kv[1] # key} \cup {<<key, val>>}

\* the entries of per_gpu for which metrics[gpu_id] is written
MetricWriters(gmap, results, name, n) ==
    {k \in DOMAIN results :
        /\ PassesGuard(gmap[k].v, n)
        /\ info_to_str(results[k].info) # <<>>
        /\ name = "memory"
        /\ MemPct(info_to_str(results[k].info)).some}

\* the loop `for idx, r in enumerate(per_gpu)` of build_stress_metrics
\* from entry k on; slot gpu_id of the code is position gpu_id + 1 here
RECURSIVE FillMetrics(_, _, _, _, _, _)
FillMetrics(ms, gmap, results, name, n, k) ==
    IF k > Len(results) THEN ms
    ELSE IF k \in MetricWriters(gmap, results, name, n)
         THEN FillMetrics(
                 [ms EXCEPT ![gmap[k].v + 1] =
                     DictSet(@, "mem_pct", MemPct(info_to_str(results[k].info)).v)],
                 gmap, results, name, n, k + 1)
         ELSE FillMetrics(ms, gmap, results, name, n, k + 1)

\* [{} for _ in range(n_gpus)]
InitialMetrics(n) == [g \in 1..n |-> {}]

TestNames == {"memory", "eud"}

\* what one test of such a report can add to `skipped`
SlotContributions ==
    [n \in 0..MaxGpus |-> {SkippedByTest(t, n) : t \in SlotArrays(n)}]

\* ---- state machine ----
GpuSlotsInit ==
    /\ n_gpus \in 0..MaxGpus
    /\ remap_skipped = {}
    /\ per_gpu = <<>>
    /\ gpu_map = <<>>
    /\ map_pass1 = <<>> /\ map_pass2 = <<>>
    /\ statuses = <<>> /\ cells = <<>>
    /\ metrics = <<>> /\ indexed = {}
    /\ gpc = "slots"

\* _find_remap_skipped_gpus, one iteration over another test of the report
ScanTestForSlots ==
    /\ gpc = "slots"
    /\ \E found \in SlotContributions[n_gpus] :
          remap_skipped' = remap_skipped \cup found
    /\ UNCHANGED <<n_gpus, per_gpu, gpu_map, map_pass1, map_pass2, statuses, cells,
                   metrics, indexed, gpc>>
    /\ UNCHANGED nonGpuVars

\* build_stress_metrics, one iteration of `for t in results` on the fresh
\* list: the test called name with result array a
StressMetricsOfTest ==
    /\ gpc = "slots"
    /\ \E a \in SlotArrays(n_gpus), name \in TestNames :
          LET skipped == remap_skipped \cup SkippedByTest(a, n_gpus)
              p1 == Pass1(a, n_gpus)
              p2 == Pass2(p1, a, skipped)
              gm == Pass3(p2, n_gpus)
          IN /\ per_gpu' = a
             /\ remap_skipped' = skipped
             /\ map_pass1' = p1
             /\ map_pass2' = p2
             /\ gpu_map' = gm
             /\ metrics' = FillMetrics(InitialMetrics(n_gpus), gm, a, name, n_gpus, 1)
             /\ indexed' = {gm[k].v : k \in MetricWriters(gm, a, name, n_gpus)}
    /\ gpc' = "metrics"
    /\ UNCHANGED <<n_gpus, statuses, cells>>
    /\ UNCHANGED nonGpuVars

\* render_test_matrix, one iteration of `for t in results`: the row of a
\* test with result array a whose entries all carry the status st
MatrixRowOfTest ==
    /\ gpc = "slots"
    /\ \E a \in SlotArrays(n_gpus), st \in StatusTexts :
          LET skipped == remap_skipped \cup SkippedByTest(a, n_gpus)
              p1 == Pass1(a, n_gpus)
              p2 == Pass2(p1, a, skipped)
              gm == Pass3(p2, n_gpus)
              sts == [i \in DOMAIN a |-> st]
          IN /\ per_gpu' = a
             /\ statuses' = sts
             /\ remap_skipped' = skipped
             /\ map_pass1' = p1
             /\ map_pass2' = p2
             /\ gpu_map' = gm
             /\ cells' = cells_by_gpu(gm, sts, n_gpus)
             /\ indexed' = IndexedSlots(gm, n_gpus)
    /\ gpc' = "row"
    /\ UNCHANGED <<n_gpus, metrics>>
    /\ UNCHANGED nonGpuVars

(***************************************************************************)
(* Issue filter and verdict derivation (generate_report)                   *)
(***************************************************************************)
StrCountersUnavailable == <<"c","o","u","n","t","e","r","s"," ","u","n","a","v","a","i","l","a","b","l","e">>
StrPcieLinkDegradation == <<"p","c","i","e"," ","l","i","n","k"," ","d","e","g","r","a","d","a","t","i","o","n">>

Labels == <<"Install", "Inventory", "Stress Test">>
Verdicts == {"PASS", "WARN", "FAIL", "N/A"}

\* a stage payload that is None (or empty): `if data:` is false
NoData == [present |-> FALSE, overall |-> "N/A", issues |-> <<>>]
\* a stage payload with verdict.overall = v and verdict.issues = iss
StageData(v, iss) == [present |-> TRUE, overall |-> v, issues |-> iss]

\* the issues of one stage, each copied and tagged with c["source"] = label
Tagged(label, data) ==
    IF data.present
    THEN [k \in DOMAIN data.issues |-> [issue |-> data.issues[k], source |-> label]]
    ELSE <<>>

\* all_issues before filtering, in stage order
CollectedIssues(stages) ==
    Tagged(Labels[1], stages[1]) \o Tagged(Labels[2], stages[2]) \o Tagged(Labels[3], stages[3])

NoCountersUnavailable(i) == ~Contains(Lower(i.issue), StrCountersUnavailable)
NoPcieLinkDegradation(i) == ~Contains(Lower(i.issue), StrPcieLinkDegradation)

\* the link-degradation filter dropping every issue of the Inventory stage
FilteredIssuesDropInventory(stages) ==
    LET collected == CollectedIssues(stages)
        no_counters == IF stages[3].present
                       THEN SelectSeq(collected, NoCountersUnavailable)
                       ELSE collected
        NotInventory(i) == i.source # Labels[2]
    IN SelectSeq(no_counters, NotInventory)

\* the counters filter applied whether or not stress data exists
FilteredIssuesCountersAlways(stages) ==
    SelectSeq(SelectSeq(CollectedIssues(stages), NoCountersUnavailable),
              NoPcieLinkDegradation)

\* the link-degradation filter nested under `if stress:`
FilteredIssuesPcieIfStress(stages) ==
    IF stages[3].present
    THEN SelectSeq(SelectSeq(CollectedIssues(stages), NoCountersUnavailable),
                   NoPcieLinkDegradation)
    ELSE CollectedIssues(stages)

\* all_issues after the two filters
FilteredIssues(stages) ==
    LET collected == CollectedIssues(stages)
        no_counters == IF stages[3].present
                       THEN SelectSeq(collected, NoCountersUnavailable)
                       ELSE collected
    IN SelectSeq(no_counters, NoPcieLinkDegradation)

\* a stage without data reported as passed
StageVerdictsAbsentPass(stages, issues) ==
    LET remaining_sources == {issues[k].source : k \in DOMAIN issues}
    IN [k \in 1..3 |->
          IF stages[k].present
          THEN <<Labels[k],
                 IF stages[k].overall = "WARN" /\ Labels[k] \notin remaining_sources
                 THEN "PASS" ELSE stages[k].overall>>
          ELSE <<Labels[k], "PASS">>]

\* the upgrade applied to FAIL as well as WARN
StageVerdictsUpgradeFail(stages, issues) ==
    LET remaining_sources == {issues[k].source : k \in DOMAIN issues}
    IN [k \in 1..3 |->
          IF stages[k].present
          THEN <<Labels[k],
                 IF stages[k].overall \in {"WARN", "FAIL"} /\ Labels[k] \notin remaining_sources
                 THEN "PASS" ELSE stages[k].overall>>
          ELSE <<Labels[k], "N/A">>]

\* verdicts: per stage (label, verdict), WARN upgraded to PASS when no
\* issue of the stage survived
StageVerdicts(stages, issues) ==
    LET remaining_sources == {issues[k].source : k \in DOMAIN issues}
    IN [k \in 1..3 |->
          IF stages[k].present
          THEN <<Labels[k],
                 IF stages[k].overall = "WARN" /\ Labels[k] \notin remaining_sources
                 THEN "PASS" ELSE stages[k].overall>>
          ELSE <<Labels[k], "N/A">>]

\* pri.get(x[1], 3)
pri(v) ==
    CASE v = "FAIL" -> 0
      [] v = "WARN" -> 1
      [] v = "PASS" -> 2
      [] OTHER -> 3

\* max(verdicts, key=...) in place of min
OverallVerdictMax(vs) ==
    LET m == SetMax({pri(vs[k][2]) : k \in DOMAIN vs})
    IN vs[SetMin({k \in DOMAIN vs : pri(vs[k][2]) = m})][2]

\* min(verdicts, key=lambda x: pri.get(x[1], 3))[1]: the first of the
\* verdicts with the lowest priority number
OverallVerdict(vs) ==
    LET m == SetMin({pri(vs[k][2]) : k \in DOMAIN vs})
    IN vs[SetMin({k \in DOMAIN vs : pri(vs[k][2]) = m})][2]

\* ---- inputs ----
IssueEccCounters == <<"E","C","C"," ","c","o","u","n","t","e","r","s"," ","u","n","a","v","a","i","l","a","b","l","e">>
IssuePcieLink    == <<"P","C","I","e"," ","L","i","n","k"," ","D","e","g","r","a","d","a","t","i","o","n">>
IssuePcieAndEcc  == <<"P","C","I","e"," ","l","i","n","k"," ","d","e","g","r","a","d","a","t","i","o","n",";"," ","C","o","u","n","t","e","r","s"," ","U","n","a","v","a","i","l","a","b","l","e">>
IssueFan         == <<"F","a","n"," ","f","a","i","l","u","r","e">>
IssueTexts == {IssueEccCounters, IssuePcieLink, IssuePcieAndEcc, IssueFan}

StageInputs == {NoData} \cup {StageData(v, <<>>) : v \in Verdicts}

\* ---- state machine ----
nonIssueVars == <<gpuVars, storVars, nicVars, enrVars, unitVars, lshwVars, resVars, dmiVars, pciVars>>

IssueIdle ==
    /\ install = NoData /\ inventory = NoData /\ stress = NoData
    /\ all_issues = <<>> /\ verdicts = <<>> /\ overall = "" /\ ipc = "idle"

IssueInit ==
    /\ install \in StageInputs
    /\ inventory \in StageInputs
    /\ stress \in StageInputs
    /\ all_issues = <<>> /\ verdicts = <<>> /\ overall = "" /\ ipc = "input"

IssueCount == Len(install.issues) + Len(inventory.issues) + Len(stress.issues)

\* the install stage's verdict carries one more issue
InstallReports ==
    /\ ipc = "input" /\ install.present /\ IssueCount < MaxIssues
    /\ \E d \in IssueTexts :
          install' = [install EXCEPT !.issues = Append(@, d)]
    /\ UNCHANGED <<inventory, stress, all_issues, verdicts, overall, ipc>>
    /\ UNCHANGED nonIssueVars

\* the inventory stage's verdict carries one more issue
InventoryReports ==
    /\ ipc = "input" /\ inventory.present /\ IssueCount < MaxIssues
    /\ \E d \in IssueTexts :
          inventory' = [inventory EXCEPT !.issues = Append(@, d)]
    /\ UNCHANGED <<install, stress, all_issues, verdicts, overall, ipc>>
    /\ UNCHANGED nonIssueVars

\* the stress stage's verdict carries one more issue
StressReports ==
    /\ ipc = "input" /\ stress.present /\ IssueCount < MaxIssues
    /\ \E d \in IssueTexts :
          stress' = [stress EXCEPT !.issues = Append(@, d)]
    /\ UNCHANGED <<install, inventory, all_issues, verdicts, overall, ipc>>
    /\ UNCHANGED nonIssueVars

\* generate_report: collect, filter, derive stage verdicts and the overall verdict
GenerateReport ==
    /\ ipc = "input"
    /\ LET stages == <<install, inventory, stress>>
           issues == FilteredIssues(stages)
           vs == StageVerdicts(stages, issues)
       IN /\ all_issues' = issues
          /\ verdicts' = vs
          /\ overall' = OverallVerdict(vs)
    /\ ipc' = "done"
    /\ UNCHANGED <<install, inventory, stress>>
    /\ UNCHANGED nonIssueVars

(***************************************************************************)
(* Storage merger (extract_storage_details)                                *)
(* A device carries the fields the merge reads: name and serial ("" when   *)
(* the serial is missing or empty).  model, firmware and numa_node are     *)
(* copied field by field and are left out; the size does not take part in  *)
(* the merge and its conversion to GB is BlockSize of the size             *)
(* normalisers.                                                            *)
(***************************************************************************)
Disk(name, serial) == [name |-> name, serial |-> serial]
DevRecord(dev, type, raid_member) ==
    [name |-> dev.name, serial |-> dev.serial, type |-> type, raid_member |-> raid_member]

\* loop 1: every physical block device is appended, its serial remembered
RECURSIVE BlockDevices(_, _)
BlockDevices(bds, acc) ==
    IF bds = <<>> THEN acc
    ELSE LET bd == Head(bds)
         IN BlockDevices(Tail(bds),
                [devs |-> Append(acc.devs, DevRecord(bd, "block", FALSE)),
                 seen_serials |-> IF bd.serial # ""
                                  THEN acc.seen_serials \cup {bd.serial}
                                  ELSE acc.seen_serials])

\* loops 2 and 3: a device whose non-empty serial was seen is skipped
RECURSIVE UnseenDevices(_, _, _, _)
UnseenDevices(members, acc, type, raid_member) ==
    IF members = <<>> THEN acc
    ELSE LET m == Head(members)
         IN IF m.serial # "" /\ m.serial \in acc.seen_serials
            THEN UnseenDevices(Tail(members), acc, type, raid_member)
            ELSE UnseenDevices(Tail(members),
                    [devs |-> Append(acc.devs, DevRecord(m, type, raid_member)),
                     seen_serials |-> IF m.serial # ""
                                      THEN acc.seen_serials \cup {m.serial}
                                      ELSE acc.seen_serials],
                    type, raid_member)

\* raid.get("devices", []) + raid.get("spare_devices", []) over all raids
RECURSIVE RaidMembers(_)
RaidMembers(raids) ==
    IF raids = <<>> THEN <<>>
    ELSE Head(raids).devices \o Head(raids).spare_devices \o RaidMembers(Tail(raids))

extract_storage_details(m, mr) ==
    LET a1 == BlockDevices(m.physicalblockdevice_set, [devs |-> <<>>, seen_serials |-> {}])
        a2 == UnseenDevices(RaidMembers(m.raid_set), a1, "raid_member", TRUE)
        a3 == IF mr.present THEN UnseenDevices(mr.storage.disks, a2, "disk", FALSE) ELSE a2
    IN a3.devs

\* ---- inputs ----
DiskNames == {"sda", "sdb"}
Serials == {"", "S1", "S2"}
Disks == {Disk(n, sn) : n \in DiskNames, sn \in Serials}
NoResources == [present |-> FALSE, storage |-> [disks |-> <<>>]]

\* ---- state machine ----
nonStorVars == <<gpuVars, issueVars, nicVars, enrVars, unitVars, lshwVars, resVars, dmiVars, pciVars>>

StorIdle ==
    /\ machine = [physicalblockdevice_set |-> <<>>, raid_set |-> <<>>]
    /\ machine_resources = NoResources
    /\ devs = <<>> /\ spc = "idle"

StorInit ==
    /\ machine = [physicalblockdevice_set |-> <<>>,
                  raid_set |-> <<[name |-> "md0", level |-> "raid-1",
                                  devices |-> <<>>, spare_devices |-> <<>>]>>]
    /\ machine_resources = NoResources
    /\ devs = <<>> /\ spc = "input"

DiskCount ==
    Len(machine.physicalblockdevice_set) + Len(RaidMembers(machine.raid_set))
    + Len(machine_resources.storage.disks)

\* the fleet-inventory record lists one more physical block device
AddBlockDevice ==
    /\ spc = "input" /\ DiskCount < MaxDisks
    /\ \E dk \in Disks :
          machine' = [machine EXCEPT !.physicalblockdevice_set = Append(@, dk)]
    /\ UNCHANGED <<machine_resources, devs, spc>>
    /\ UNCHANGED nonStorVars

\* the RAID set lists one more member device
AddRaidMember ==
    /\ spc = "input" /\ DiskCount < MaxDisks
    /\ \E dk \in Disks :
          machine' = [machine EXCEPT !.raid_set[1].devices = Append(@, dk)]
    /\ UNCHANGED <<machine_resources, devs, spc>>
    /\ UNCHANGED nonStorVars

\* the RAID set lists one more spare device
AddRaidSpare ==
    /\ spc = "input" /\ DiskCount < MaxDisks
    /\ \E dk \in Disks :
          machine' = [machine EXCEPT !.raid_set[1].spare_devices = Append(@, dk)]
    /\ UNCHANGED <<machine_resources, devs, spc>>
    /\ UNCHANGED nonStorVars

\* the resource-enumeration payload lists one more disk
AddResourceDisk ==
    /\ spc = "input" /\ DiskCount < MaxDisks
    /\ \E dk \in Disks :
          machine_resources' =
              [present |-> TRUE,
               storage |-> [disks |-> Append(machine_resources.storage.disks, dk)]]
    /\ UNCHANGED <<machine, devs, spc>>
    /\ UNCHANGED nonStorVars

ExtractStorageDetails ==
    /\ spc = "input"
    /\ devs' = extract_storage_details(machine, machine_resources)
    /\ spc' = "done"
    /\ UNCHANGED <<machine, machine_resources>>
    /\ UNCHANGED nonStorVars

(***************************************************************************)
(* NIC grouping (_group_nics_by_card)                                      *)
(* A port carries its mac ("" when missing); product, vendor, sriov and    *)
(* numa only label the card and are left out.                              *)
(***************************************************************************)
\* code-point order of the characters used in MAC addresses
CharOrder == <<" ","-","0","1","2","3","4","5","6","7","8","9",":","A","B","C","D","E","F","a","b","c","d","e","f">>
CharRank(c) == CHOOSE i \in DOMAIN CharOrder : CharOrder[i] = c

\* a < b for Python str
RECURSIVE StrLess(_, _)
StrLess(a, b) ==
    IF b = <<>> THEN FALSE
    ELSE IF a = <<>> THEN TRUE
    ELSE IF Head(a) = Head(b) THEN StrLess(Tail(a), Tail(b))
    ELSE CharRank(Head(a)) < CharRank(Head(b))

\* insert x into the sorted sequence ss, after equal elements
RECURSIVE InsertSorted(_, _)
InsertSorted(ss, x) ==
    IF ss = <<>> THEN <<x>>
    ELSE IF StrLess(x, Head(ss)) THEN <<x>> \o ss
    ELSE <<Head(ss)>> \o InsertSorted(Tail(ss), x)

\* sorted(list of str)
RECURSIVE SortedStrs(_)
SortedStrs(ss) ==
    IF ss = <<>> THEN <<>>
    ELSE InsertSorted(SortedStrs(SubSeq(ss, 1, Len(ss) - 1)), ss[Len(ss)])

\* the mac without .lower()
NormMacNoLower(n) == Strip(n.mac)

\* (n.get("mac", "") or "").lower().strip()
NormMac(n) == Strip(Lower(n.mac))

MinMacLen == 14

\* the keys of `groups` in insertion order
RECURSIVE GroupPrefixes(_)
GroupPrefixes(ports) ==
    IF ports = <<>> THEN <<>>
    ELSE LET before == GroupPrefixes(SubSeq(ports, 1, Len(ports) - 1))
             mac == NormMac(ports[Len(ports)])
         IN IF Len(mac) >= MinMacLen /\ Prefix(mac, MinMacLen) \notin Range(before)
            THEN Append(before, Prefix(mac, MinMacLen))
            ELSE before

PortMacs(ports) == [i \in DOMAIN ports |-> ports[i].mac]

_group_nics_by_card(ports) ==
    LET prefixes == GroupPrefixes(ports)
        InGroup(pfx) ==
            LET Member(n) == Len(NormMac(n)) >= MinMacLen
                             /\ Prefix(NormMac(n), MinMacLen) = pfx
            IN SelectSeq(ports, Member)
        Ungrouped(n) == Len(NormMac(n)) < MinMacLen
        ungrouped == SelectSeq(ports, Ungrouped)
    IN [k \in DOMAIN prefixes |->
           [ports |-> Len(InGroup(prefixes[k])),
            macs  |-> SortedStrs(PortMacs(InGroup(prefixes[k])))]]
       \o [k \in DOMAIN ungrouped |->
           [ports |-> 1, macs |-> <<ungrouped[k].mac>>]]

\* ---- inputs ----
MacEE01     == <<"a","a",":","b","b",":","c","c",":","d","d",":","e","e",":","0","1">>
MacEE02     == <<"a","a",":","b","b",":","c","c",":","d","d",":","e","e",":","0","2">>
MacEE03Caps == <<"A","A",":","B","B",":","C","C",":","D","D",":","E","E",":","0","3">>
MacEE04Pad  == <<" ","a","a",":","b","b",":","c","c",":","d","d",":","e","e",":","0","4">>
MacEF01     == <<"a","a",":","b","b",":","c","c",":","d","d",":","e","f",":","0","1">>
MacEF02     == <<"a","a",":","b","b",":","c","c",":","d","d",":","e","f",":","0","2">>
MacShort    == <<"a","a",":","b","b",":","c","c">>
MacNone     == <<>>
Macs == {MacEE01, MacEE02, MacEE03Caps, MacEE04Pad, MacEF01, MacEF02, MacShort, MacNone}
Port(mac) == [mac |-> mac]

\* ---- state machine ----
nonNicVars == <<gpuVars, issueVars, storVars, enrVars, unitVars, lshwVars, resVars, dmiVars, pciVars>>

NicIdle == nics = <<>> /\ cards = <<>> /\ npc = "idle"

NicInit == nics = <<>> /\ cards = <<>> /\ npc = "input"

\* the interface list holds one more port
AddNic ==
    /\ npc = "input" /\ Len(nics) < MaxNics
    /\ \E mac \in Macs : nics' = Append(nics, Port(mac))
    /\ UNCHANGED <<cards, npc>>
    /\ UNCHANGED nonNicVars

GroupNicsByCard ==
    /\ npc = "input"
    /\ cards' = IF nics = <<>> THEN <<>> ELSE _group_nics_by_card(nics)
    /\ npc' = "done"
    /\ UNCHANGED nics
    /\ UNCHANGED nonNicVars

(***************************************************************************)
(* NIC enrichment (enrich_nics_from_lshw)                                  *)
(* A record carries mac, product and vendor; the other fields of a port    *)
(* are neither read nor written.                                           *)
(***************************************************************************)
Nic(mac, product, vendor) == [mac |-> mac, product |-> product, vendor |-> vendor]

\* by_mac after the loop over lshw_nics: the last record of each
\* non-empty normalised mac
ByMac(lshw, mac) ==
    LET hits == {k \in DOMAIN lshw : NormMac(lshw[k]) # <<>> /\ NormMac(lshw[k]) = mac}
    IN IF hits = {} THEN None ELSE Some(lshw[SetMax(hits)])

\* the loop body with both assignments made unconditionally
EnrichNicOverwrite(nic, lshw) ==
    LET lshw_nic == ByMac(lshw, NormMac(nic))
    IN IF lshw_nic.some
       THEN [nic EXCEPT !.product = lshw_nic.v.product, !.vendor = lshw_nic.v.vendor]
       ELSE nic

\* the body of `for nic in nics`
EnrichNic(nic, lshw) ==
    LET lshw_nic == ByMac(lshw, NormMac(nic))
    IN IF lshw_nic.some
       THEN [nic EXCEPT
               !.product = IF nic.product = "" THEN lshw_nic.v.product ELSE @,
               !.vendor  = IF nic.vendor = "" \/ nic.vendor = "--"
                           THEN lshw_nic.v.vendor ELSE @]
       ELSE nic

enrich_nics_from_lshw(ns, lshw) ==
    IF lshw = <<>> THEN ns
    ELSE [i \in DOMAIN ns |-> EnrichNic(ns[i], lshw)]

\* ---- inputs ----
MacEE01CapsPad == <<" ","A","A",":","B","B",":","C","C",":","D","D",":","E","E",":","0","1"," ">>
PrimaryNics ==
    {Nic(m, p, v) : m \in {MacEE01CapsPad, MacNone},
                    p \in {"", "I350"}, v \in {"", "--", "Intel"}}
LshwNics ==
    {Nic(m, pv[1], pv[2]) : m \in {MacEE01, MacEE02},
                            pv \in {<<"X710", "">>, <<"", "Mellanox">>, <<"ConnectX", "Mellanox">>}}
    \cup {Nic(MacNone, "ConnectX", "Mellanox")}

\* ---- state machine ----
nonEnrVars == <<gpuVars, issueVars, storVars, nicVars, unitVars, lshwVars, resVars, dmiVars, pciVars>>

EnrIdle ==
    primary_nics = <<>> /\ lshw_nics = <<>> /\ enriched = <<>> /\ epc = "idle"

EnrInit ==
    primary_nics = <<>> /\ lshw_nics = <<>> /\ enriched = <<>> /\ epc = "input"

\* the primary source lists one more port
AddPrimaryNic ==
    /\ epc = "input" /\ Len(primary_nics) + Len(lshw_nics) < MaxEnrich
    /\ \E n \in PrimaryNics : primary_nics' = Append(primary_nics, n)
    /\ UNCHANGED <<lshw_nics, enriched, epc>>
    /\ UNCHANGED nonEnrVars

\* the secondary source lists one more record
AddLshwNic ==
    /\ epc = "input" /\ Len(primary_nics) + Len(lshw_nics) < MaxEnrich
    /\ \E n \in LshwNics : lshw_nics' = Append(lshw_nics, n)
    /\ UNCHANGED <<primary_nics, enriched, epc>>
    /\ UNCHANGED nonEnrVars

EnrichNicsFromLshw ==
    /\ epc = "input"
    /\ enriched' = enrich_nics_from_lshw(primary_nics, lshw_nics)
    /\ epc' = "done"
    /\ UNCHANGED <<primary_nics, lshw_nics>>
    /\ UNCHANGED nonEnrVars

(***************************************************************************)
(* Size normalisers                                                        *)
(* A <size> element is [present, text, units]; units is NoUnits when the   *)
(* attribute is missing.  A JSON size is [present, neg, mag].              *)
(***************************************************************************)
NoUnits == "(no attribute)"
SizeEl(text, units) == [present |-> TRUE, text |-> text, units |-> units]
NoSizeEl == [present |-> FALSE, text |-> <<>>, units |-> NoUnits]

\* size_el.get("units", "bytes")
UnitsOf(size_el) == IF size_el.units = NoUnits THEN "bytes" ELSE size_el.units

\* the divisors taking raw_size to GiB, every unit read as a power of 1000
MemDivisorsDecimal(units) ==
    CASE units = "bytes" -> <<1000, 1000, 1000>>
      [] units = "KiB"   -> <<1000, 1000>>
      [] units = "MiB"   -> <<1000>>
      [] OTHER           -> <<1000, 1000, 1000>>

\* the divisors taking raw_size to GiB in parse_lshw_dimms: 1024 ** 3,
\* 1024 ** 2, 1024; an unknown unit is read as bytes
MemDivisors(units) ==
    CASE units = "bytes" -> <<1024, 1024, 1024>>
      [] units = "KiB"   -> <<1024, 1024>>
      [] units = "MiB"   -> <<1024>>
      [] OTHER           -> <<1024, 1024, 1024>>

\* parse_lshw_dimms, "# Size": whether size_gb > 0, and the value
\* `round(size_gb, 1) if size_gb else 0` stored in the record
MemSize(size_el) ==
    LET raw == IntText(size_el.text)
    IN IF ~size_el.present \/ size_el.text = <<>> \/ ~raw.some
       THEN [positive |-> FALSE, size_gb |-> IntZero]
       ELSE IF IsZero(raw.v.mag)
       THEN [positive |-> FALSE,
             size_gb |-> IntZero]
       ELSE [positive |-> ~raw.v.neg,
             size_gb |-> IF UnitsOf(size_el) = "GiB"
                         THEN IntValue(raw.v.neg, raw.v.mag)
                         ELSE FloatTenths(raw.v.neg,
                                  Tenths(raw.v.mag, MemDivisors(UnitsOf(size_el))))]

\* parse_lshw_storage: round(size_gb, 1) with size_gb = raw / (1000 ** 3)
\* for bytes and raw itself for any other unit
LshwDiskSize(size_el) ==
    LET raw == IntText(size_el.text)
    IN IF ~size_el.present \/ size_el.text = <<>> \/ ~raw.some THEN IntZero
       ELSE IF UnitsOf(size_el) = "bytes"
            THEN FloatTenths(raw.v.neg, Tenths(raw.v.mag, <<1000, 1000, 1000>>))
            ELSE IntValue(raw.v.neg, raw.v.mag)

\* a JSON size field: missing, or an integer
NoJsonSize == [present |-> FALSE, neg |-> FALSE, mag |-> <<"0">>]
JsonSize(neg, mag) == [present |-> TRUE, neg |-> neg, mag |-> mag]

\* extract_storage_details:
\* round(size_bytes / (1000 ** 3), 1) if size_bytes else 0
BlockSize(size) ==
    IF ~size.present \/ IsZero(size.mag) THEN IntZero
    ELSE FloatTenths(size.neg, Tenths(size.mag, <<1000, 1000, 1000>>))

\* ---- inputs ----
Size16GiBInBytes     == <<"1","7","1","7","9","8","6","9","1","8","4">>
Size16GiBInKiB       == <<"1","6","7","7","7","2","1","6">>
Size16GiBInMiB       == <<"1","6","3","8","4">>
Size16               == <<"1","6">>
Size2TB              == <<"2","0","0","0","0","0","0","0","0","0","0","0","0">>
Size500GB            == <<"5","0","0","1","0","7","8","6","2","0","1","6">>
SizeQuarterGiB       == <<"2","6","8","4","3","5","4","5","6">>
SizeThreeQuarterGiB  == <<"8","0","5","3","0","6","3","6","8">>
SizeZero             == <<"0">>
SizeNegative         == <<"-","1","0","2","4">>
SizeNotANumber       == <<"a","b","c">>
SizePadded           == <<" ","1","5","3","6"," ">>
SizeEmpty            == <<>>
SizeTexts ==
    {Size16GiBInBytes, Size16GiBInKiB, Size16GiBInMiB, Size16, Size2TB, Size500GB,
     SizeQuarterGiB, SizeThreeQuarterGiB, SizeZero, SizeNegative, SizeNotANumber,
     SizePadded, SizeEmpty}
UnitNames == {"bytes", "KiB", "MiB", "GiB", "kB", NoUnits}

\* the JSON integer written with the digits of text, if it is a numeral
JsonSizeOf(text) ==
    LET raw == IntText(text)
    IN IF raw.some THEN JsonSize(raw.v.neg, raw.v.mag) ELSE NoJsonSize

\* ---- state machine ----
nonUnitVars == <<gpuVars, issueVars, storVars, nicVars, enrVars, lshwVars, resVars, dmiVars, pciVars>>

UnitIdle ==
    /\ size_text = <<>> /\ size_units = NoUnits
    /\ mem_size_gb = IntZero /\ lshw_disk_gb = IntZero /\ block_size_gb = IntZero
    /\ upc = "idle"

UnitInit ==
    /\ size_text \in SizeTexts /\ size_units \in UnitNames
    /\ mem_size_gb = IntZero /\ lshw_disk_gb = IntZero /\ block_size_gb = IntZero
    /\ upc = "input"

\* the three size computations applied to the same number
NormalizeSize ==
    /\ upc = "input"
    /\ mem_size_gb' = MemSize(SizeEl(size_text, size_units)).size_gb
    /\ lshw_disk_gb' = LshwDiskSize(SizeEl(size_text, size_units))
    /\ block_size_gb' = BlockSize(JsonSizeOf(size_text))
    /\ upc' = "done"
    /\ UNCHANGED <<size_text, size_units>>
    /\ UNCHANGED nonUnitVars

(***************************************************************************)
(* Hardware-tree memory extractor (parse_lshw_dimms)                       *)
(* A <node> is [id, class, description, slot, size, nested, settings,      *)
(* clock, width]: description is the text of the child element ("" when    *)
(* there is none), slot is [present, text], size is a <size> element,      *)
(* nested tells whether the node has a child <node>, settings lists the    *)
(* [id, value] attributes of <configuration><setting>, clock is            *)
(* [present, text] and width is an element with units like size.  A        *)
(* record is [slot, description, size_gb, clock_mhz, width_bits]; vendor,   *)
(* product and serial are copied texts.                                    *)
(***************************************************************************)
StrCache       == <<"c","a","c","h","e">>
StrSystemBoard == <<"s","y","s","t","e","m"," ","b","o","a","r","d">>
StrMotherboard == <<"m","o","t","h","e","r","b","o","a","r","d">>
StrBankColon   == <<"b","a","n","k",":">>
StrColon       == <<":">>

\* the slot names accepted at lines 432-434
SlotKeywords ==
    { <<"D","I","M","M">>, <<"C","P","U">>, <<"M","E","M">>, <<"P","R","O","C">>,
      <<"B","A","N","K">>, <<"S","L","O","T">>, <<"C","H","A","N","N","E","L">>,
      <<"P","0","_">>, <<"P","1","_">>, <<"N","O","D","E">> }

SlotEl(text) == [present |-> TRUE, text |-> text]
NoSlotEl == [present |-> FALSE, text |-> <<>>]

\* _xml_text(el, tag, ""): the stripped text of the child, "" without it
_xml_text(present, text) == IF present /\ text # <<>> THEN Strip(text) ELSE <<>>

NoClockEl == [present |-> FALSE, text |-> <<>>]
ClockEl(text) == [present |-> TRUE, text |-> text]
Setting(id, value) == [id |-> id, value |-> value]

\* a node without <configuration>, <clock> and <width>
LshwNode(id, class, description, slot, size, nested) ==
    [id |-> id, class |-> class, description |-> description, slot |-> slot,
     size |-> size, nested |-> nested,
     settings |-> <<>>, clock |-> NoClockEl, width |-> NoSizeEl]

\* the same node with settings, a clock and a width
WithSpeed(node, settings, clock, width) ==
    [node EXCEPT !.settings = settings, !.clock = clock, !.width = width]

\* "# --- EXCLUDE non-DIMM memory nodes ---": tested on the description
LshwExcluded(node) ==
    LET desc == Lower(_xml_text(TRUE, node.description))
    IN \/ Contains(desc, StrCache)
       \/ Contains(desc, StrSystemBoard) \/ Contains(desc, StrMotherboard)
       \/ node.nested

\* "# --- INCLUDE only actual DIMM slots ---"
LshwIncluded(node) ==
    LET is_bank == Prefix(node.id, Len(StrBankColon)) = StrBankColon
        is_mem_slot == node.class = "memory" /\ node.slot.present /\ node.size.present
        is_mem_numbered ==
            node.class = "memory" /\ Contains(node.id, StrColon) /\ node.size.present
    IN is_bank \/ is_mem_slot \/ is_mem_numbered

\* "# Extra validation: slot name should look like a DIMM slot"
LshwSlotAccepted(node) ==
    LET slot == _xml_text(node.slot.present, node.slot.text)
    IN slot = <<>> \/ \E kw \in SlotKeywords : Contains(Upper(slot), kw)

StrMHz == <<"M","H","z">>
SpeedSettingIds ==
    { <<"s","p","e","e","d">>,
      <<"c","o","n","f","i","g","u","r","e","d","_","s","p","e","e","d">>,
      <<"c","o","n","f","i","g","u","r","e","d","_","c","l","o","c","k","_","s","p","e","e","d">> }

\* does r'(\d{3,5})\s*MHz' match starting at position i: three to five
\* digits, then blanks, then MHz
MHzMatchAt(s, i) ==
    LET de == DigitRunEnd(s, i)
        se == SpaceRunEnd(s, de + 1)
    IN /\ de - i + 1 >= 3 /\ de - i + 1 <= 5
       /\ se + Len(StrMHz) <= Len(s)
       /\ SubSeq(s, se + 1, se + Len(StrMHz)) = StrMHz

\* int(text) // 1_000_000 for a decimal numeral with or without a sign
FloorMillions(v) ==
    LET c == DivChain(v.mag, <<1000, 1000>>)
        q == DigitsToInt(c.q)
    IN IF ~v.neg THEN q ELSE IF c.r = 0 THEN -q ELSE -(q + 1)

\* "# Strategy 1": the first MHz figure of the description, if >= 800
SpeedFromDescription(raw_desc) ==
    LET starts == {i \in DOMAIN raw_desc : MHzMatchAt(raw_desc, i)}
    IN IF starts = {} THEN 0
       ELSE LET i == SetMin(starts)
                speed_val == DigitsToInt(SubSeq(raw_desc, i, DigitRunEnd(raw_desc, i)))
            IN IF speed_val >= 800 THEN speed_val ELSE 0

\* "# Strategy 2": the loop over the settings from setting k on; a later
\* setting with a usable number replaces the value of an earlier one
RECURSIVE SpeedFromSettings(_, _, _)
SpeedFromSettings(settings, k, clock_mhz) ==
    IF k > Len(settings) THEN clock_mhz
    ELSE LET sid == Lower(settings[k].id)
             digits == SelectSeq(settings[k].value, IsDigit)
             big == Len(StripZeros(digits)) > 6 \/ DigitsToInt(StripZeros(digits)) > 100000
         IN IF sid \notin SpeedSettingIds \/ digits = <<>>
            THEN SpeedFromSettings(settings, k + 1, clock_mhz)
            ELSE IF big
            THEN SpeedFromSettings(settings, k + 1,
                    FloorMillions([neg |-> FALSE, mag |-> StripZeros(digits)]))
            ELSE IF ~IsZero(digits)
            THEN SpeedFromSettings(settings, k + 1, DigitsToInt(StripZeros(digits)))
            ELSE SpeedFromSettings(settings, k + 1, clock_mhz)

\* "# Strategy 3": the <clock> element, in Hz
SpeedFromClock(clock) ==
    LET hz == IntText(clock.text)
    IN IF clock.present /\ clock.text # <<>> /\ hz.some THEN FloorMillions(hz.v) ELSE 0

\* the chain without its guards: every strategy that yields a value writes it
ClockMhzLaterWins(node) ==
    LET s1 == SpeedFromDescription(_xml_text(TRUE, node.description))
        s2 == SpeedFromSettings(node.settings, 1, s1)
        s3 == SpeedFromClock(node.clock)
    IN IF s3 # 0 THEN s3 ELSE s2

\* the chain of `if not clock_mhz:`
ClockMhz(node) ==
    LET s1 == SpeedFromDescription(_xml_text(TRUE, node.description))
        s2 == IF s1 = 0 THEN SpeedFromSettings(node.settings, 1, s1) ELSE s1
    IN IF s2 = 0 THEN SpeedFromClock(node.clock) ELSE s2

\* "# Width": bits, a width in bytes times 8
WidthBits(width_el) ==
    LET w == IntText(width_el.text)
        bits == IF w.v.neg THEN -DigitsToInt(w.v.mag) ELSE DigitsToInt(w.v.mag)
    IN IF ~width_el.present \/ width_el.text = <<>> \/ ~w.some THEN 0
       ELSE IF width_el.units = "bytes" THEN bits * 8 ELSE bits

\* the records one node contributes: none or one
LshwDimmRecords(node) ==
    LET size == MemSize(node.size)
    IN IF ~LshwExcluded(node) /\ LshwIncluded(node) /\ LshwSlotAccepted(node)
          /\ size.positive
       THEN << [slot |-> _xml_text(node.slot.present, node.slot.text),
                description |-> _xml_text(TRUE, node.description),
                size_gb |-> size.size_gb,
                clock_mhz |-> ClockMhz(node),
                width_bits |-> WidthBits(node.width)] >>
       ELSE <<>>

RECURSIVE LshwDimmsOfNodes(_)
LshwDimmsOfNodes(nodes) ==
    IF nodes = <<>> THEN <<>>
    ELSE LshwDimmRecords(Head(nodes)) \o LshwDimmsOfNodes(Tail(nodes))

\* the payload: None or b"", bytes that ET.fromstring rejects, or a tree
LshwAbsent    == [state |-> "absent", nodes |-> <<>>]
LshwMalformed == [state |-> "malformed", nodes |-> <<>>]
LshwTree(nodes) == [state |-> "ok", nodes |-> nodes]

parse_lshw_dimms(xml) ==
    IF xml.state = "ok" THEN LshwDimmsOfNodes(xml.nodes) ELSE <<>>

\* ---- inputs ----
StrBank0   == <<"b","a","n","k",":","0">>
StrBank1   == <<"b","a","n","k",":","1">>
StrCache0  == <<"c","a","c","h","e",":","0">>
StrMemory  == <<"m","e","m","o","r","y">>
StrMemory0 == <<"m","e","m","o","r","y",":","0">>
DescDimm        == <<"D","I","M","M"," ","D","D","R","4">>
DescL1Cache     == <<"L","1"," ","c","a","c","h","e">>
DescSystemBoard == <<"S","y","s","t","e","m"," ","B","o","a","r","d">>
DescSystemMem   == <<"S","y","s","t","e","m"," ","M","e","m","o","r","y">>
SlotDimmA1      == <<"D","I","M","M","_","A","1">>
SlotL1Cache     == <<"L","1","-","C","a","c","h","e">>
SlotBoardMemory == <<"S","y","s","t","e","m"," ","B","o","a","r","d"," ","M","e","m","o","r","y">>
SlotBoard       == <<"S","y","s","t","e","m"," ","b","o","a","r","d">>

LshwNodes ==
    { LshwNode(StrBank0, "memory", DescDimm, SlotEl(SlotDimmA1),
               SizeEl(Size16GiBInBytes, "bytes"), FALSE),
      LshwNode(StrBank1, "memory", DescDimm, SlotEl(SlotDimmA1),
               SizeEl(Size16GiBInKiB, "bytes"), FALSE),
      LshwNode(StrBank1, "memory", DescDimm, SlotEl(SlotDimmA1), NoSizeEl, FALSE),
      LshwNode(StrBank1, "memory", DescDimm, SlotEl(SlotDimmA1),
               SizeEl(SizeNegative, "bytes"), FALSE),
      LshwNode(StrBank1, "memory", DescDimm, SlotEl(SlotBoardMemory),
               SizeEl(Size16, "GiB"), FALSE),
      LshwNode(StrCache0, "memory", DescL1Cache, SlotEl(SlotL1Cache),
               SizeEl(Size16GiBInMiB, "KiB"), FALSE),
      LshwNode(StrMemory, "memory", DescSystemBoard, SlotEl(SlotDimmA1),
               SizeEl(Size16GiBInBytes, "bytes"), FALSE),
      LshwNode(StrMemory, "memory", DescSystemMem, SlotEl(SlotBoard),
               SizeEl(Size16GiBInBytes, "bytes"), FALSE),
      LshwNode(StrMemory0, "memory", DescSystemMem, NoSlotEl,
               SizeEl(Size16GiBInMiB, "MiB"), TRUE),
      LshwNode(StrMemory0, "memory", DescDimm, NoSlotEl,
               SizeEl(Size16GiBInMiB, "MiB"), FALSE),
      LshwNode(StrMemory, "processor", DescDimm, SlotEl(SlotDimmA1),
               SizeEl(Size16, "GiB"), FALSE) }

\* ---- inputs of the speed chain ----
Desc3200MHz    == <<"D","D","R","4"," ","S","y","n","c","h","r","o","n","o","u","s"," ","3","2","0","0"," ","M","H","z"," ","(","0",".","3"," ","n","s",")">>
Desc400MHz     == <<"D","D","R"," ","4","0","0","M","H","z">>
Desc400Then3200 == <<"D","D","R"," ","4","0","0"," ","M","H","z"," ","o","r"," ","3","2","0","0"," ","M","H","z">>
StrSpeed       == <<"s","p","e","e","d">>
StrConfiguredSpeedCaps == <<"C","o","n","f","i","g","u","r","e","d","_","S","p","e","e","d">>
StrConfiguredClockSpeed == <<"c","o","n","f","i","g","u","r","e","d","_","c","l","o","c","k","_","s","p","e","e","d">>
StrLatency     == <<"l","a","t","e","n","c","y">>
Str4800        == <<"4","8","0","0">>
Str4800MHzInHz == <<"4","8","0","0","0","0","0","0","0","0">>
Str200000      == <<"2","0","0","0","0","0">>
Str5600MTs     == <<"5","6","0","0"," ","M","T","/","s">>
StrUnknown     == <<"U","n","k","n","o","w","n">>
Str2400MHzInHz == <<"2","4","0","0","0","0","0","0","0","0">>
Str999999      == <<"9","9","9","9","9","9">>

SpeedDescriptions == {DescDimm, Desc3200MHz, Desc400MHz, Desc400Then3200}
SpeedSettings ==
    { <<>>,
      <<Setting(StrSpeed, Str4800)>>,
      <<Setting(StrConfiguredSpeedCaps, Str4800MHzInHz)>>,
      <<Setting(StrSpeed, Str200000)>>,
      <<Setting(StrSpeed, Str4800), Setting(StrConfiguredClockSpeed, Str5600MTs)>>,
      <<Setting(StrSpeed, Str4800), Setting(StrSpeed, <<"0">>)>>,
      <<Setting(StrLatency, Str4800)>>,
      <<Setting(StrSpeed, StrUnknown)>> }
SpeedClocks == {NoClockEl, ClockEl(Str2400MHzInHz), ClockEl(Str999999), ClockEl(StrUnknown)}
SpeedWidths == {NoSizeEl, SizeEl(<<"6","4">>, "bits"), SizeEl(<<"8">>, "bytes")}

\* a populated bank with every combination of the three speed sources
SpeedNodes ==
    { WithSpeed(LshwNode(StrBank0, "memory", desc, SlotEl(SlotDimmA1),
                         SizeEl(Size16GiBInBytes, "bytes"), FALSE),
                settings, clock, width) :
        desc \in SpeedDescriptions, settings \in SpeedSettings,
        clock \in SpeedClocks, width \in SpeedWidths }

\* ---- state machine ----
nonLshwVars == <<gpuVars, issueVars, storVars, nicVars, enrVars, unitVars, resVars, dmiVars, pciVars>>

LshwIdle == lshw_xml = LshwAbsent /\ lshw_dimms = <<>> /\ lpc = "idle"

LshwInit ==
    /\ lshw_xml \in {LshwAbsent, LshwMalformed, LshwTree(<<>>)}
    /\ lshw_dimms = <<>>
    /\ lpc = "input"

\* one more <node> in the tree
AddLshwNode ==
    /\ lpc = "input" /\ lshw_xml.state = "ok"
    /\ Len(lshw_xml.nodes) < MaxNodes
    /\ \E node \in LshwNodes : lshw_xml' = LshwTree(Append(lshw_xml.nodes, node))
    /\ UNCHANGED <<lshw_dimms, lpc>>
    /\ UNCHANGED nonLshwVars

ParseLshwDimms ==
    /\ lpc = "input"
    /\ lshw_dimms' = parse_lshw_dimms(lshw_xml)
    /\ lpc' = "done"
    /\ UNCHANGED lshw_xml
    /\ UNCHANGED nonLshwVars

\* a tree of one populated bank, for the speed chain
LshwSpeedInit ==
    /\ lshw_xml \in {LshwTree(<<node>>) : node \in SpeedNodes}
    /\ lshw_dimms = <<>>
    /\ lpc = "input"

(***************************************************************************)
(* Resource-document memory extractor (parse_machine_resources_dimms)      *)
(* A document is [state, grouped, flat]: grouped holds the entries of      *)
(* memory.nodes[].dimms[] in order, flat those of memory.dimms[].  An      *)
(* entry is a JSON object [is_dict, slot, locator, type, description,      *)
(* size] whose text fields are None when the key is missing, or a value    *)
(* that is no object (is_dict false).  A size is missing, an integer       *)
(* number of MiB, or a string.  A record is [slot, description, size_gb].  *)
(***************************************************************************)
StrL1 == <<"l","1">>
StrL2 == <<"l","2">>
StrL3 == <<"l","3">>
\* _EXCLUDE_KEYWORDS
_EXCLUDE_KEYWORDS == {StrCache, StrL1, StrL2, StrL3, StrSystemBoard, StrMotherboard}

SizeMissing == [kind |-> "missing", neg |-> FALSE, mag |-> <<"0">>]
SizeMiB(neg, mag) == [kind |-> "int", neg |-> neg, mag |-> mag]
SizeString == [kind |-> "str", neg |-> FALSE, mag |-> <<"0">>]

ResEntry(slot, locator, type, description, size) ==
    [is_dict |-> TRUE, slot |-> slot, locator |-> locator, type |-> type,
     description |-> description, size |-> size]
NotAnObject ==
    [is_dict |-> FALSE, slot |-> None, locator |-> None, type |-> None,
     description |-> None, size |-> SizeMissing]

\* d.get(key, default) for a text field
GetOr(field, default) == IF field.some THEN field.v ELSE default

\* _is_real_dimm: "raise" for the AttributeError of a value without .get
\* and the TypeError of `size <= 0` on a string, else "yes" or "no"
_is_real_dimm(entry) ==
    LET slot == Lower(GetOr(entry.slot, GetOr(entry.locator, <<>>)))
        desc == Lower(GetOr(entry.type, GetOr(entry.description, <<>>)))
    IN IF ~entry.is_dict THEN "raise"
       ELSE IF \E kw \in _EXCLUDE_KEYWORDS : Contains(slot, kw) \/ Contains(desc, kw)
       THEN "no"
       ELSE IF entry.size.kind = "missing" THEN "no"
       ELSE IF entry.size.kind = "str" THEN "raise"
       ELSE IF IsZero(entry.size.mag) \/ entry.size.neg THEN "no"
       ELSE "yes"

\* round(size_mb / 1024, 1) if size_mb else 0
ResSizeGb(size) ==
    IF size.kind # "int" \/ IsZero(size.mag) THEN IntZero
    ELSE FloatTenths(size.neg, Tenths(size.mag, <<1024>>))

\* the record appended for an accepted entry; the flat layout falls back
\* to the locator for the slot
ResRecord(entry, flat_layout) ==
    [slot |-> GetOr(entry.slot, IF flat_layout THEN GetOr(entry.locator, <<>>) ELSE <<>>),
     description |-> GetOr(entry.type, <<>>),
     size_gb |-> ResSizeGb(entry.size)]

\* one of the two loops from entry k on: the list so far and whether an
\* exception left the try block
RECURSIVE ResLoop(_, _, _, _)
ResLoop(entries, flat_layout, k, dimms) ==
    IF k > Len(entries) THEN [dimms |-> dimms, raised |-> FALSE]
    ELSE LET real == _is_real_dimm(entries[k])
         IN IF real = "raise" THEN [dimms |-> dimms, raised |-> TRUE]
            ELSE IF real = "no" THEN ResLoop(entries, flat_layout, k + 1, dimms)
            ELSE ResLoop(entries, flat_layout, k + 1,
                         Append(dimms, ResRecord(entries[k], flat_layout)))

\* the body of the try block
ResTry(doc) ==
    IF doc.state # "ok" THEN [dimms |-> <<>>, raised |-> TRUE]
    ELSE LET grouped == ResLoop(doc.grouped, FALSE, 1, <<>>)
         IN IF grouped.raised \/ grouped.dimms # <<>> THEN grouped
            ELSE ResLoop(doc.flat, TRUE, 1, <<>>)

\* [d for d in dimms if d.get("size_gb", 0) > 0]
RECURSIVE PositiveSized(_)
PositiveSized(dimms) ==
    IF dimms = <<>> THEN <<>>
    ELSE (IF IsPositive(Head(dimms).size_gb) THEN <<Head(dimms)>> ELSE <<>>)
         \o PositiveSized(Tail(dimms))

\* the payload: None or {}, a value that is no document, or a document
ResAbsent == [state |-> "absent", grouped |-> <<>>, flat |-> <<>>]
ResNotADocument == [state |-> "malformed", grouped |-> <<>>, flat |-> <<>>]
ResDocument(grouped, flat) == [state |-> "ok", grouped |-> grouped, flat |-> flat]

parse_machine_resources_dimms(doc) ==
    IF doc.state = "absent" THEN <<>> ELSE PositiveSized(ResTry(doc).dimms)

\* ---- inputs ----
TypeDDR4    == <<"D","D","R","4">>
TypeL3Cache == <<"L","3"," ","C","a","c","h","e">>
MiB16384    == SizeMiB(FALSE, Size16GiBInMiB)
MiB40       == SizeMiB(FALSE, <<"4","0">>)
ResEntries ==
    { ResEntry(Some(SlotDimmA1), None, Some(TypeDDR4), None, MiB16384),
      ResEntry(Some(SlotDimmA1), None, Some(TypeDDR4), None, SizeString),
      NotAnObject,
      ResEntry(Some(SlotDimmA1), None, Some(TypeDDR4), None, SizeMissing),
      ResEntry(Some(SlotDimmA1), None, Some(TypeDDR4), None, SizeMiB(FALSE, SizeZero)),
      ResEntry(Some(SlotDimmA1), None, Some(TypeDDR4), None, SizeMiB(TRUE, Size16)),
      ResEntry(Some(SlotDimmA1), None, Some(TypeDDR4), None, MiB40),
      ResEntry(Some(SlotDimmA1), None, Some(TypeL3Cache), None, MiB16384),
      ResEntry(None, Some(SlotBoardMemory), None, Some(DescDimm), MiB16384),
      ResEntry(None, Some(SlotDimmA1), Some(TypeDDR4), Some(DescL1Cache), MiB16384) }

\* ---- state machine ----
nonResVars == <<gpuVars, issueVars, storVars, nicVars, enrVars, unitVars, lshwVars, dmiVars, pciVars>>

ResIdle == resources = ResAbsent /\ res_dimms = <<>> /\ res_warned = FALSE /\ rpc = "idle"

ResInit ==
    /\ resources \in {ResAbsent, ResNotADocument, ResDocument(<<>>, <<>>)}
    /\ res_dimms = <<>>
    /\ res_warned = FALSE
    /\ rpc = "input"

\* one more entry under memory.nodes[].dimms[]
AddGroupedDimm ==
    /\ rpc = "input" /\ resources.state = "ok"
    /\ Len(resources.grouped) + Len(resources.flat) < MaxDimms
    /\ \E entry \in ResEntries :
          resources' = ResDocument(Append(resources.grouped, entry), resources.flat)
    /\ UNCHANGED <<res_dimms, res_warned, rpc>>
    /\ UNCHANGED nonResVars

\* one more entry under memory.dimms[]
AddFlatDimm ==
    /\ rpc = "input" /\ resources.state = "ok"
    /\ Len(resources.grouped) + Len(resources.flat) < MaxDimms
    /\ \E entry \in ResEntries :
          resources' = ResDocument(resources.grouped, Append(resources.flat, entry))
    /\ UNCHANGED <<res_dimms, res_warned, rpc>>
    /\ UNCHANGED nonResVars

ParseMachineResourcesDimms ==
    /\ rpc = "input"
    /\ res_dimms' = parse_machine_resources_dimms(resources)
    /\ res_warned' = (resources.state # "absent" /\ ResTry(resources).raised)
    /\ rpc' = "done"
    /\ UNCHANGED resources
    /\ UNCHANGED nonResVars

(***************************************************************************)
(* Firmware-text speeds (parse_dmidecode_dimm_speeds, enrich_dimm_speeds)  *)
(* The text is [present, lines], lines being dmidecode_text.split("\n")    *)
(* of a text that does not end in a newline, and no line at all the empty  *)
(* text.  The dict of speeds is a sequence of [slot, speed] in insertion   *)
(* order, which is the order `for ... in dmidecode_speeds.items()` sees.   *)
(* A memory module is [slot, clock_mhz].                                   *)
(***************************************************************************)
StrMemoryDevice   == <<"M","e","m","o","r","y"," ","D","e","v","i","c","e">>
StrMapped         == <<"M","a","p","p","e","d">>
StrHandleSp       == <<"H","a","n","d","l","e"," ">>
StrLocatorColon   == <<"L","o","c","a","t","o","r",":">>
StrConfMemSpeed   == <<"C","o","n","f","i","g","u","r","e","d"," ","M","e","m","o","r","y"," ","S","p","e","e","d",":">>
StrConfClockSpeed == <<"C","o","n","f","i","g","u","r","e","d"," ","C","l","o","c","k"," ","S","p","e","e","d",":">>
StrSpeedColon     == <<"S","p","e","e","d",":">>

\* str.startswith()
StartsWith(s, pat) == Len(s) >= Len(pat) /\ SubSeq(s, 1, Len(pat)) = pat

\* stripped.split(":", 1)[1].strip() of a text that holds a colon
AfterColon(s) ==
    LET i == SetMin({k \in DOMAIN s : s[k] = ":"})
    IN Strip(SubSeq(s, i + 1, Len(s)))

\* int("".join(c for c in val.split()[0] if c.isdigit())) of a stripped val;
\* 0 stands for IndexError and ValueError, which leave current_speed alone
\* as a num of 0 does
SpeedNumber(val) ==
    LET blanks == {k \in DOMAIN val : IsSpace(val[k])}
        word == IF blanks = {} THEN val ELSE SubSeq(val, 1, SetMin(blanks) - 1)
    IN DigitsToInt(SelectSeq(word, IsDigit))

\* speeds[slot] = speed
SpeedsPut(speeds, slot, speed) ==
    IF \E i \in DOMAIN speeds : speeds[i].slot = slot
    THEN [i \in DOMAIN speeds |->
            IF speeds[i].slot = slot THEN [slot |-> slot, speed |-> speed] ELSE speeds[i]]
    ELSE Append(speeds, [slot |-> slot, speed |-> speed])

\* `if current_slot and current_speed: speeds[current_slot] = current_speed`
Flush(st) ==
    IF st.current_slot # <<>> /\ st.current_speed # 0
    THEN SpeedsPut(st.speeds, st.current_slot, st.current_speed)
    ELSE st.speeds

DmiStart ==
    [speeds |-> <<>>, current_slot |-> <<>>, current_speed |-> 0,
     in_memory_device |-> FALSE]

\* the body of the loop for one line
DmiLine(st, line) ==
    LET stripped == Strip(line)
        num == SpeedNumber(AfterColon(stripped))
    IN IF Contains(stripped, StrMemoryDevice) /\ ~Contains(stripped, StrMapped)
       THEN [st EXCEPT !.in_memory_device = TRUE, !.current_slot = <<>>,
                       !.current_speed = 0]
       ELSE IF st.in_memory_device
               /\ (StartsWith(stripped, StrHandleSp)
                   \/ (stripped = <<>> /\ st.current_slot # <<>>))
       THEN [st EXCEPT !.speeds = Flush(st),
                       !.in_memory_device = ~StartsWith(stripped, StrHandleSp)]
       ELSE IF ~st.in_memory_device THEN st
       ELSE IF StartsWith(stripped, StrLocatorColon)
       THEN [st EXCEPT !.current_slot = AfterColon(stripped)]
       ELSE IF StartsWith(stripped, StrConfMemSpeed)
               \/ StartsWith(stripped, StrConfClockSpeed)
       THEN IF num > 0 THEN [st EXCEPT !.current_speed = num] ELSE st
       ELSE IF StartsWith(stripped, StrSpeedColon) /\ st.current_speed = 0
       THEN IF num > 0 THEN [st EXCEPT !.current_speed = num] ELSE st
       ELSE st

RECURSIVE DmiLoop(_, _, _)
DmiLoop(lines, k, st) ==
    IF k > Len(lines) THEN st ELSE DmiLoop(lines, k + 1, DmiLine(st, lines[k]))

DmiAbsent == [present |-> FALSE, lines |-> <<>>]
DmiText(lines) == [present |-> TRUE, lines |-> lines]

parse_dmidecode_dimm_speeds(text) ==
    IF ~text.present \/ text.lines = <<>> THEN <<>>
    ELSE Flush(DmiLoop(text.lines, 1, DmiStart))

Dimm(slot, clock_mhz) == [slot |-> slot, clock_mhz |-> clock_mhz]

\* the loop body of enrich_dimm_speeds for one module
EnrichDimm(dimm, speeds) ==
    LET exact == {i \in DOMAIN speeds : speeds[i].slot = dimm.slot}
        partial == {i \in DOMAIN speeds :
                      dimm.slot # <<>>
                      /\ (Contains(speeds[i].slot, dimm.slot)
                          \/ Contains(dimm.slot, speeds[i].slot))}
    IN IF exact # {} THEN [dimm EXCEPT !.clock_mhz = speeds[SetMin(exact)].speed]
       ELSE IF partial # {} THEN [dimm EXCEPT !.clock_mhz = speeds[SetMin(partial)].speed]
       ELSE dimm

enrich_dimm_speeds(dimms, speeds) ==
    IF speeds = <<>> THEN dimms
    ELSE [i \in DOMAIN dimms |-> EnrichDimm(dimms[i], speeds)]

\* `dmidecode_text and "Memory Device" in dmidecode_text`
NamesMemoryDevice(text) ==
    text.present /\ \E i \in DOMAIN text.lines : Contains(text.lines[i], StrMemoryDevice)

\* step 4c of fetch_from_maas: the speeds of the text, then the modules
SpeedsOfStep4c(text) ==
    IF NamesMemoryDevice(text) THEN parse_dmidecode_dimm_speeds(text) ELSE <<>>
DimmsAfterStep4c(dimms, text) ==
    IF SpeedsOfStep4c(text) # <<>>
    THEN enrich_dimm_speeds(dimms, SpeedsOfStep4c(text)) ELSE dimms

\* ---- inputs ----
LineMemoryDevice == <<"M","e","m","o","r","y"," ","D","e","v","i","c","e">>
LineMapped       == <<"M","e","m","o","r","y"," ","D","e","v","i","c","e"," ","M","a","p","p","e","d"," ","A","d","d","r","e","s","s">>
LineHandle       == <<"H","a","n","d","l","e"," ","0","x","0","0","4","0",","," ","D","M","I"," ","t","y","p","e"," ","1","7",","," ","9","2"," ","b","y","t","e","s">>
LineBlank        == <<>>
LineLocatorA1    == <<" "," ","L","o","c","a","t","o","r",":"," ","D","I","M","M","_","A","1">>
LineLocatorB1    == <<" "," ","L","o","c","a","t","o","r",":"," ","D","I","M","M","_","B","1">>
LineSpeed3200    == <<" "," ","S","p","e","e","d",":"," ","3","2","0","0"," ","M","T","/","s">>
LineConf2933     == <<" "," ","C","o","n","f","i","g","u","r","e","d"," ","M","e","m","o","r","y"," ","S","p","e","e","d",":"," ","2","9","3","3"," ","M","T","/","s">>
LineConfUnknown  == <<" "," ","C","o","n","f","i","g","u","r","e","d"," ","M","e","m","o","r","y"," ","S","p","e","e","d",":"," ","U","n","k","n","o","w","n">>
SlotDimmB1       == <<"D","I","M","M","_","B","1">>
SlotA1           == <<"A","1">>

DmiLines ==
    {LineMemoryDevice, LineMapped, LineHandle, LineBlank, LineLocatorA1,
     LineLocatorB1, LineSpeed3200, LineConf2933, LineConfUnknown}

\* whole texts for the enrichment: no text, no block, blocks for one or two slots
DmiTexts ==
    { DmiAbsent,
      DmiText(<<LineHandle, LineMapped, LineLocatorA1, LineConf2933>>),
      DmiText(<<LineHandle, LineMemoryDevice, LineLocatorA1, LineConfUnknown>>),
      DmiText(<<LineHandle, LineMemoryDevice, LineLocatorA1, LineSpeed3200,
                LineConf2933, LineBlank>>),
      DmiText(<<LineHandle, LineMemoryDevice, LineLocatorB1, LineSpeed3200, LineBlank,
                LineHandle, LineMemoryDevice, LineLocatorA1, LineConf2933, LineBlank>>) }
DimmSlots  == {SlotDimmA1, SlotDimmB1, SlotA1, <<>>}
DimmClocks == {0, 3200, 4800}
DimmLists ==
    {<<>>} \cup {<<Dimm(s, c)>> : s \in DimmSlots, c \in DimmClocks}
    \cup {<<Dimm(SlotDimmA1, c1), Dimm(s, c2)>> : s \in DimmSlots, c1, c2 \in DimmClocks}

\* ---- state machine ----
nonDmiVars == <<gpuVars, issueVars, storVars, nicVars, enrVars, unitVars, lshwVars, resVars, pciVars>>

DmiIdle ==
    dmi_text = DmiAbsent /\ dmi_speeds = <<>> /\ dimms_in = <<>> /\ dimms_out = <<>>
    /\ dpc = "idle"

DmiInit ==
    /\ dmi_text \in {DmiAbsent, DmiText(<<>>)}
    /\ dmi_speeds = <<>> /\ dimms_in = <<>> /\ dimms_out = <<>>
    /\ dpc = "input"

\* one more line of text
AddDmiLine ==
    /\ dpc = "input" /\ dmi_text.present
    /\ Len(dmi_text.lines) < MaxLines
    /\ \E line \in DmiLines : dmi_text' = DmiText(Append(dmi_text.lines, line))
    /\ UNCHANGED <<dmi_speeds, dimms_in, dimms_out, dpc>>
    /\ UNCHANGED nonDmiVars

ParseDmidecode ==
    /\ dpc = "input"
    /\ dmi_speeds' = parse_dmidecode_dimm_speeds(dmi_text)
    /\ dpc' = "done"
    /\ UNCHANGED <<dmi_text, dimms_in, dimms_out>>
    /\ UNCHANGED nonDmiVars

\* the modules of the primary source and a firmware text
DimmEnrichInit ==
    /\ dmi_text \in DmiTexts
    /\ dimms_in \in DimmLists
    /\ dmi_speeds = <<>> /\ dimms_out = <<>>
    /\ dpc = "input"

\* step 4c of fetch_from_maas
EnrichDimmSpeeds ==
    /\ dpc = "input"
    /\ dmi_speeds' = SpeedsOfStep4c(dmi_text)
    /\ dimms_out' = DimmsAfterStep4c(dimms_in, dmi_text)
    /\ dpc' = "done"
    /\ UNCHANGED <<dmi_text, dimms_in>>
    /\ UNCHANGED nonDmiVars

(***************************************************************************)
(* Peripheral devices (extract_pci_devices)                                *)
(* The payload is [present, network, storage, pci, nested]: network is the *)
(* list under "network", pci the list under "pci", nested the list under   *)
(* resources.pci, and storage is either a list of items or a keyed         *)
(* document (the shape extract_storage_details reads), of which a for      *)
(* loop sees the keys.  An item is a record of optional text fields or     *)
(* something that is no dict.  The fields are those the function reads     *)
(* first; class_id, vendor_name, subvendor, product_name, product_id,      *)
(* device_id, driver_name, module, numa_node, bus_address and id are       *)
(* absent from the explored items (vendor, product_id and numa_node are    *)
(* copied into an entry like product).  An element of all_pci is [d, cat]: *)
(* the copy d and its "_category" (None when the key is unset).            *)
(***************************************************************************)
PciItem(mark, class, pci_class, driver, product, device, pci_address, address, vendor_id) ==
    [is_dict |-> TRUE, _category |-> mark, class |-> class, pci_class |-> pci_class,
     driver |-> driver, product |-> product, device |-> device,
     pci_address |-> pci_address, address |-> address, vendor_id |-> vendor_id]
NotADict ==
    [is_dict |-> FALSE, _category |-> None, class |-> None, pci_class |-> None,
     driver |-> None, product |-> None, device |-> None,
     pci_address |-> None, address |-> None, vendor_id |-> None]
\* `dict(dev) if isinstance(dev, dict) else {}`
EmptyDict == [NotADict EXCEPT !.is_dict = TRUE]
CopyOf(dev) == IF dev.is_dict THEN dev ELSE EmptyDict

StorageList(items) == [shape |-> "list", items |-> items, keys |-> <<>>]
StorageDocument(keys) == [shape |-> "document", items |-> <<>>, keys |-> keys]
\* what `for dev in machine_resources.get("storage", [])` iterates over
StorageIterated(storage) ==
    IF storage.shape = "list" THEN storage.items
    ELSE [i \in DOMAIN storage.keys |-> NotADict]

NetworkDriversFlat   == {<<"m","l","x","5","_","c","o","r","e">>, <<"i","4","0","e">>, <<"i","c","e">>, <<"b","n","x","t","_","e","n">>, <<"i","g","b">>, <<"i","x","g","b","e">>, <<"e","1","0","0","0">>}
StorageDriversFlat   == {<<"n","v","m","e">>, <<"m","e","g","a","r","a","i","d","_","s","a","s">>, <<"m","p","t","3","s","a","s">>, <<"a","h","c","i">>}
NetworkDriversNested == {<<"m","l","x","5","_","c","o","r","e">>, <<"i","4","0","e">>, <<"i","c","e">>, <<"b","n","x","t","_","e","n">>}
StorageDriversNested == {<<"n","v","m","e">>, <<"m","e","g","a","r","a","i","d","_","s","a","s">>, <<"m","p","t","3","s","a","s">>}
NetworkClassWords    == {<<"n","e","t","w","o","r","k">>, <<"e","t","h","e","r","n","e","t">>}
StorageClassWords    == {<<"s","t","o","r","a","g","e">>, <<"m","a","s","s">>, <<"r","a","i","d">>, <<"n","v","m","e">>, <<"s","a","t","a">>, <<"s","a","s">>}
NetworkProductWords  == {<<"e","t","h","e","r","n","e","t">>, <<"c","o","n","n","e","c","t","x">>, <<"n","e","t","w","o","r","k">>}
StorageProductWords  == {<<"n","v","m","e">>, <<"r","a","i","d">>, <<"s","a","s">>, <<"s","s","d">>}
StrNetwork == <<"n","e","t","w","o","r","k">>
StrStorage == <<"s","t","o","r","a","g","e">>

\* the if / elif of strategy 2
CategoryFlat(d) ==
    LET pci_class == Lower(GetOr(d.class, GetOr(d.pci_class, <<>>)))
        driver == Lower(GetOr(d.driver, <<>>))
        product == Lower(GetOr(d.product, GetOr(d.device, <<>>)))
    IN IF \/ \E w \in NetworkClassWords : Contains(pci_class, w)
          \/ StartsWith(pci_class, <<"0","2">>)
          \/ driver \in NetworkDriversFlat
          \/ \E w \in NetworkProductWords : Contains(product, w)
       THEN Some(StrNetwork)
       ELSE IF \/ \E w \in StorageClassWords : Contains(pci_class, w)
               \/ StartsWith(pci_class, <<"0","1">>)
               \/ driver \in StorageDriversFlat
               \/ \E w \in StorageProductWords : Contains(product, w)
       THEN Some(StrStorage)
       ELSE None

\* the if / elif of strategy 3
CategoryNested(d) ==
    LET pci_class == Lower(GetOr(d.class, <<>>))
        driver == Lower(GetOr(d.driver, <<>>))
    IN IF StartsWith(pci_class, <<"0","2">>) \/ driver \in NetworkDriversNested
       THEN Some(StrNetwork)
       ELSE IF StartsWith(pci_class, <<"0","1">>) \/ driver \in StorageDriversNested
       THEN Some(StrStorage)
       ELSE None

\* `d.get("_category")` is truthy
Marked(d) == d._category.some /\ d._category.v # <<>>

\* strategy 1: every item of a section, with the section as its category
FromSection(items, section) ==
    [i \in DOMAIN items |-> [d |-> CopyOf(items[i]), cat |-> Some(section)]]

\* strategy 2: the flat list; an item that carries a category is passed over
RECURSIVE FromFlat(_)
FromFlat(items) ==
    IF items = <<>> THEN <<>>
    ELSE LET d == CopyOf(Head(items))
         IN (IF Marked(d) THEN <<>> ELSE << [d |-> d, cat |-> CategoryFlat(d)] >>)
            \o FromFlat(Tail(items))

\* strategy 3: the nested list; an item that carries a category keeps it
FromNested(items) ==
    [i \in DOMAIN items |->
        LET d == CopyOf(items[i])
        IN [d |-> d, cat |-> IF Marked(d) THEN d._category ELSE CategoryNested(d)]]

AllPci(doc) ==
    FromSection(doc.network, StrNetwork)
    \o FromSection(StorageIterated(doc.storage), StrStorage)
    \o FromFlat(doc.pci) \o FromNested(doc.nested)

HexChars == {"0","1","2","3","4","5","6","7","8","9",
             "a","b","c","d","e","f","A","B","C","D","E","F"}
\* "# Clean up vendor_id/product_id: keep only hex IDs"
CleanId(text) ==
    LET val == Strip(text)
    IN IF Len(val) > 6 /\ ~(\A i \in DOMAIN val : val[i] \in HexChars) THEN <<>> ELSE text

\* the entry of a retained device
PciEntry(d) ==
    [product |-> GetOr(d.product, GetOr(d.device, <<>>)),
     driver |-> GetOr(d.driver, <<>>),
     vendor_id |-> CleanId(GetOr(d.vendor_id, <<>>)),
     pci_address |-> GetOr(d.pci_address, GetOr(d.address, <<>>))]

\* the last loop, for one of the two categories
RECURSIVE Retained(_, _)
Retained(all, cat) ==
    IF all = <<>> THEN <<>>
    ELSE (IF Head(all).cat = Some(cat) THEN <<PciEntry(Head(all).d)>> ELSE <<>>)
         \o Retained(Tail(all), cat)

NoPciDevices == [network |-> <<>>, storage |-> <<>>]
PciAbsent ==
    [present |-> FALSE, network |-> <<>>, storage |-> StorageList(<<>>),
     pci |-> <<>>, nested |-> <<>>]
PciDocument(network, storage, pci, nested) ==
    [present |-> TRUE, network |-> network, storage |-> storage,
     pci |-> pci, nested |-> nested]

extract_pci_devices(doc) ==
    IF ~doc.present THEN NoPciDevices
    ELSE [network |-> Retained(AllPci(doc), StrNetwork),
          storage |-> Retained(AllPci(doc), StrStorage)]

\* ---- inputs ----
Addr0100 == <<"0","0","0","0",":","0","1",":","0","0",".","0">>
Addr0200 == <<"0","0","0","0",":","0","2",":","0","0",".","0">>
Addr0300 == <<"0","0","0","0",":","0","3",":","0","0",".","0">>
Addr0400 == <<"0","0","0","0",":","0","4",":","0","0",".","0">>
Addr0500 == <<"0","0","0","0",":","0","5",":","0","0",".","0">>
ItemEthernetClass ==
    PciItem(None, Some(<<"0","2","0","0","0","0">>), None, None, None, None, Some(Addr0100), None, Some(<<"1","5","b","3">>))
ItemNvmeDriver ==
    PciItem(None, None, None, Some(<<"n","v","m","e">>), None, None, None, Some(Addr0200), None)
ItemEthernetRaid ==
    PciItem(None, None, None, None, Some(<<"E","t","h","e","r","n","e","t"," ","R","A","I","D"," ","C","o","n","t","r","o","l","l","e","r">>), None, Some(Addr0300), None, None)
ItemDisplay ==
    PciItem(None, Some(<<"0","3","0","0","0","0">>), None, Some(<<"n","v","i","d","i","a">>), None, None, Some(Addr0400), None, None)
ItemIxgbeNoAddress ==
    PciItem(None, None, None, Some(<<"i","x","g","b","e">>), None, None, None, None, None)
ItemMarkedNetwork ==
    PciItem(Some(StrNetwork), Some(<<"0","3","0","0","0","0">>), None, None, None, None, Some(Addr0500), None, None)
ItemMassStorage ==
    PciItem(None, None, Some(<<"M","a","s","s"," ","s","t","o","r","a","g","e"," ","c","o","n","t","r","o","l","l","e","r">>), None, None, Some(<<"S","S","D"," ","D","C"," ","P","4","5","1","0">>), None, Some(Addr0200),
            Some(<<"I","n","t","e","l"," ","C","o","r","p","o","r","a","t","i","o","n">>))
PciItems ==
    {ItemEthernetClass, ItemNvmeDriver, ItemEthernetRaid, ItemDisplay,
     ItemIxgbeNoAddress, ItemMarkedNetwork, ItemMassStorage, NotADict}
StrDisks == <<"d","i","s","k","s">>

\* ---- state machine ----
nonPciVars == <<gpuVars, issueVars, storVars, nicVars, enrVars, unitVars, lshwVars, resVars, dmiVars>>

PciIdle ==
    pci_resources = PciAbsent /\ all_pci = <<>> /\ pci_devices = NoPciDevices
    /\ ppc = "idle"

PciInit ==
    /\ pci_resources \in {PciAbsent, PciDocument(<<>>, StorageList(<<>>), <<>>, <<>>)}
    /\ all_pci = <<>>
    /\ pci_devices = NoPciDevices
    /\ ppc = "input"

PciItemCount ==
    Len(pci_resources.network) + Len(pci_resources.storage.items)
    + Len(pci_resources.pci) + Len(pci_resources.nested)
CanAddPciItem == ppc = "input" /\ pci_resources.present /\ PciItemCount < MaxPci

AddNetworkItem ==
    /\ CanAddPciItem
    /\ \E item \in PciItems :
          pci_resources' = [pci_resources EXCEPT !.network = Append(@, item)]
    /\ UNCHANGED <<all_pci, pci_devices, ppc>>
    /\ UNCHANGED nonPciVars

AddStorageItem ==
    /\ CanAddPciItem /\ pci_resources.storage.shape = "list"
    /\ \E item \in PciItems :
          pci_resources' = [pci_resources EXCEPT !.storage.items = Append(@, item)]
    /\ UNCHANGED <<all_pci, pci_devices, ppc>>
    /\ UNCHANGED nonPciVars

\* the storage section becomes the keyed document {"disks": [...]}
StorageAsDocument ==
    /\ ppc = "input" /\ pci_resources.present
    /\ pci_resources.storage = StorageList(<<>>)
    /\ pci_resources' = [pci_resources EXCEPT !.storage = StorageDocument(<<StrDisks>>)]
    /\ UNCHANGED <<all_pci, pci_devices, ppc>>
    /\ UNCHANGED nonPciVars

AddFlatItem ==
    /\ CanAddPciItem
    /\ \E item \in PciItems :
          pci_resources' = [pci_resources EXCEPT !.pci = Append(@, item)]
    /\ UNCHANGED <<all_pci, pci_devices, ppc>>
    /\ UNCHANGED nonPciVars

AddNestedItem ==
    /\ CanAddPciItem
    /\ \E item \in PciItems :
          pci_resources' = [pci_resources EXCEPT !.nested = Append(@, item)]
    /\ UNCHANGED <<all_pci, pci_devices, ppc>>
    /\ UNCHANGED nonPciVars

ExtractPciDevices ==
    /\ ppc = "input"
    /\ all_pci' = (IF pci_resources.present THEN AllPci(pci_resources) ELSE <<>>)
    /\ pci_devices' = extract_pci_devices(pci_resources)
    /\ ppc' = "done"
    /\ UNCHANGED pci_resources
    /\ UNCHANGED nonPciVars

(***************************************************************************)
(* Specifications                                                          *)
(***************************************************************************)
SpecGpuInit == GpuInit /\ IssueIdle /\ StorIdle /\ NicIdle /\ EnrIdle /\ UnitIdle /\ LshwIdle /\ ResIdle /\ DmiIdle /\ PciIdle
SpecGpuNext == ScanTest \/ ResolveTest
SpecGpu == SpecGpuInit /\ [][SpecGpuNext]_vars

SpecSingleInit == GpuSingleInit /\ IssueIdle /\ StorIdle /\ NicIdle /\ EnrIdle /\ UnitIdle /\ LshwIdle /\ ResIdle /\ DmiIdle /\ PciIdle
SpecSingleNext == ResolveSingleTest
SpecSingle == SpecSingleInit /\ [][SpecSingleNext]_vars

SpecMatrixInit == GpuMatrixInit /\ IssueIdle /\ StorIdle /\ NicIdle /\ EnrIdle /\ UnitIdle /\ LshwIdle /\ ResIdle /\ DmiIdle /\ PciIdle
SpecMatrixNext == ScanTestForMatrix \/ RenderRow
SpecMatrix == SpecMatrixInit /\ [][SpecMatrixNext]_vars

SpecSlotsInit == GpuSlotsInit /\ IssueIdle /\ StorIdle /\ NicIdle /\ EnrIdle /\ UnitIdle /\ LshwIdle /\ ResIdle /\ DmiIdle /\ PciIdle
SpecSlotsNext == ScanTestForSlots \/ StressMetricsOfTest \/ MatrixRowOfTest
SpecSlots == SpecSlotsInit /\ [][SpecSlotsNext]_vars

SpecIssueInit == IssueInit /\ GpuIdle /\ StorIdle /\ NicIdle /\ EnrIdle /\ UnitIdle /\ LshwIdle /\ ResIdle /\ DmiIdle /\ PciIdle
SpecIssueNext == InstallReports \/ InventoryReports \/ StressReports \/ GenerateReport
SpecIssue == SpecIssueInit /\ [][SpecIssueNext]_vars

SpecStorageInit == StorInit /\ GpuIdle /\ IssueIdle /\ NicIdle /\ EnrIdle /\ UnitIdle /\ LshwIdle /\ ResIdle /\ DmiIdle /\ PciIdle
SpecStorageNext ==
    AddBlockDevice \/ AddRaidMember \/ AddRaidSpare \/ AddResourceDisk \/ ExtractStorageDetails
SpecStorage == SpecStorageInit /\ [][SpecStorageNext]_vars

SpecNicInit == NicInit /\ GpuIdle /\ IssueIdle /\ StorIdle /\ EnrIdle /\ UnitIdle /\ LshwIdle /\ ResIdle /\ DmiIdle /\ PciIdle
SpecNicNext == AddNic \/ GroupNicsByCard
SpecNic == SpecNicInit /\ [][SpecNicNext]_vars

SpecEnrichInit == EnrInit /\ GpuIdle /\ IssueIdle /\ StorIdle /\ NicIdle /\ UnitIdle /\ LshwIdle /\ ResIdle /\ DmiIdle /\ PciIdle
SpecEnrichNext == AddPrimaryNic \/ AddLshwNic \/ EnrichNicsFromLshw
SpecEnrich == SpecEnrichInit /\ [][SpecEnrichNext]_vars

SpecUnitsInit == UnitInit /\ GpuIdle /\ IssueIdle /\ StorIdle /\ NicIdle /\ EnrIdle /\ LshwIdle /\ ResIdle /\ DmiIdle /\ PciIdle
SpecUnitsNext == NormalizeSize
SpecUnits == SpecUnitsInit /\ [][SpecUnitsNext]_vars

SpecLshwInit == LshwInit /\ GpuIdle /\ IssueIdle /\ StorIdle /\ NicIdle /\ EnrIdle /\ UnitIdle /\ ResIdle /\ DmiIdle /\ PciIdle
SpecLshwNext == AddLshwNode \/ ParseLshwDimms
SpecLshw == SpecLshwInit /\ [][SpecLshwNext]_vars

SpecLshwSpeedInit == LshwSpeedInit /\ GpuIdle /\ IssueIdle /\ StorIdle /\ NicIdle /\ EnrIdle /\ UnitIdle /\ ResIdle /\ DmiIdle /\ PciIdle
SpecLshwSpeedNext == ParseLshwDimms
SpecLshwSpeed == SpecLshwSpeedInit /\ [][SpecLshwSpeedNext]_vars

SpecResourcesInit == ResInit /\ GpuIdle /\ IssueIdle /\ StorIdle /\ NicIdle /\ EnrIdle /\ UnitIdle /\ LshwIdle /\ DmiIdle /\ PciIdle
SpecResourcesNext == AddGroupedDimm \/ AddFlatDimm \/ ParseMachineResourcesDimms
SpecResources == SpecResourcesInit /\ [][SpecResourcesNext]_vars

SpecDmiInit == DmiInit /\ GpuIdle /\ IssueIdle /\ StorIdle /\ NicIdle /\ EnrIdle /\ UnitIdle /\ LshwIdle /\ ResIdle /\ PciIdle
SpecDmiNext == AddDmiLine \/ ParseDmidecode
SpecDmi == SpecDmiInit /\ [][SpecDmiNext]_vars

SpecDimmEnrichInit == DimmEnrichInit /\ GpuIdle /\ IssueIdle /\ StorIdle /\ NicIdle /\ EnrIdle /\ UnitIdle /\ LshwIdle /\ ResIdle /\ PciIdle
SpecDimmEnrichNext == EnrichDimmSpeeds
SpecDimmEnrich == SpecDimmEnrichInit /\ [][SpecDimmEnrichNext]_vars

SpecPciInit == PciInit /\ GpuIdle /\ IssueIdle /\ StorIdle /\ NicIdle /\ EnrIdle /\ UnitIdle /\ LshwIdle /\ ResIdle /\ DmiIdle
SpecPciNext == AddNetworkItem \/ AddStorageItem \/ StorageAsDocument \/ AddFlatItem \/ AddNestedItem \/ ExtractPciDevices
SpecPci == SpecPciInit /\ [][SpecPciNext]_vars


(***************************************************************************)
(* Claims: GPU identity resolver                                           *)
(***************************************************************************)
\* the explicit device id carried by the gpu_id field of entry r, if any
ExplicitId(r) == IF r.gpu_id.t = "none" THEN None ELSE IntOf(r.gpu_id)
HasExplicitInRange(r, n) ==
    ExplicitId(r).some /\ ExplicitId(r).v >= 0 /\ ExplicitId(r).v < n
\* entry r yields no id in pass 1
UnresolvedInPass1(r, n) ==
    LET c == ResolvedId[r] IN ~(c.some /\ c.v >= 0 /\ c.v < n)

\* C1: for every result array, remap-skipped set and accelerator count
\* N >= 1, _build_gpu_id_map returns a list as long as the array in which
\* every position holds an integer id in [0, N).
C1_EveryEntryGetsIdInRange ==
    (gpc = "done" /\ n_gpus >= 1) =>
        /\ Len(gpu_map) = Len(per_gpu)
        /\ \A i \in DOMAIN gpu_map :
              /\ gpu_map[i].some
              /\ gpu_map[i].v \in 0..(n_gpus - 1)

\* C1 witness: an array longer than N holding an out-of-range explicit id
\* and an unresolved row-remapping entry has been resolved.
C1_Witness ==
    /\ gpc = "done"
    /\ Len(per_gpu) > n_gpus
    /\ \E i \in DOMAIN per_gpu : per_gpu[i] = Entry(IntId(n_gpus), InfoOk)
    /\ \E i \in DOMAIN per_gpu : per_gpu[i] = Entry(NoId, InfoRemap)
    /\ remap_skipped # {}

AllExplicitDistinct ==
    /\ Len(per_gpu) = n_gpus
    /\ \A i \in DOMAIN per_gpu : HasExplicitInRange(per_gpu[i], n_gpus)
    /\ \A i, j \in DOMAIN per_gpu :
          i # j => ExplicitId(per_gpu[i]).v # ExplicitId(per_gpu[j]).v

\* C2: when all N entries carry explicit, pairwise distinct ids in [0, N),
\* every position is mapped to the explicit id of its entry, for every
\* ordering and every remap-skipped set.
C2_ExplicitIdsAreKept ==
    (gpc = "done" /\ AllExplicitDistinct) =>
        \A i \in DOMAIN per_gpu : gpu_map[i] = ExplicitId(per_gpu[i])

\* C2 witness: three explicit ids out of array order, one of them on an
\* entry whose info text names another GPU, with a non-empty skipped set.
C2_Witness ==
    /\ gpc = "done" /\ AllExplicitDistinct
    /\ n_gpus = 3
    /\ ExplicitId(per_gpu[1]).v = 2
    /\ per_gpu[2] = Entry(IntId(0), InfoGpuRemap(2))
    /\ remap_skipped # {}

\* position k holds the unresolved row-remapping entry, every other entry
\* an explicit in-range id, all distinct
RemapSkipScenario(k) ==
    /\ Len(per_gpu) = n_gpus
    /\ k \in DOMAIN per_gpu
    /\ IsRemapEntry[per_gpu[k]]
    /\ UnresolvedInPass1(per_gpu[k], n_gpus)
    /\ \A i \in DOMAIN per_gpu \ {k} : HasExplicitInRange(per_gpu[i], n_gpus)
    /\ \A i, j \in DOMAIN per_gpu \ {k} :
          i # j => ExplicitId(per_gpu[i]).v # ExplicitId(per_gpu[j]).v

MissingId(k) ==
    CHOOSE g \in 0..(n_gpus - 1) :
        \A i \in DOMAIN per_gpu \ {k} : ExplicitId(per_gpu[i]).v # g

\* C3: in the remap-skip scenario the unresolved row-remapping entry is
\* mapped to the single id missing from the array, wherever it stands and
\* whatever the other tests contributed to the skipped set.
C3_RemapEntryGetsMissingId ==
    gpc = "done" =>
        \A k \in DOMAIN per_gpu :
            RemapSkipScenario(k) => gpu_map[k] = Some(MissingId(k))

\* C3 witness: N = 3, the remap entry stands first, ids 2 and 0 are
\* explicit, id 1 is missing, other tests added id 0 to the skipped set.
C3_Witness ==
    /\ gpc = "done" /\ n_gpus = 3
    /\ RemapSkipScenario(1)
    /\ MissingId(1) = 1
    /\ remap_skipped = {0, 1}
    /\ gpu_map[1] = Some(1)

NoIdNoRemap(r) ==
    /\ r.gpu_id.t = "none"
    /\ ~GpuSearch(info_to_str(r.info)).some
    /\ ~HasRowRemapping(r)

\* C4: an array of exactly N entries none of which has a device-id field,
\* a "GPU <digits>" mention or a row-remapping mention is mapped
\* positionally: position i gets id i.
C4_PositionalIdentity ==
    (/\ gpc = "done"
     /\ Len(per_gpu) = n_gpus
     /\ \A i \in DOMAIN per_gpu : NoIdNoRemap(per_gpu[i])) =>
        \A i \in DOMAIN per_gpu : gpu_map[i] = Some(i - 1)

\* C4 witness: three anonymous entries resolved while other tests had
\* filled the skipped set.
C4_Witness ==
    /\ gpc = "done" /\ n_gpus = 3 /\ Len(per_gpu) = 3
    /\ \A i \in DOMAIN per_gpu : NoIdNoRemap(per_gpu[i])
    /\ remap_skipped # {}
    /\ gpu_map = <<Some(0), Some(1), Some(2)>>


(***************************************************************************)
(* Claims: issue filter and verdicts                                       *)
(***************************************************************************)
StageOf(k) == <<install, inventory, stress>>[k]
MentionsCounters(d) == Contains(Lower(d), StrCountersUnavailable)
MentionsPcie(d) == Contains(Lower(d), StrPcieLinkDegradation)
\* the issue with description d reported by stage k is in the filtered list
Survives(k, d) ==
    \E m \in DOMAIN all_issues : all_issues[m] = [issue |-> d, source |-> Labels[k]]
SurvivingOf(k) == {m \in DOMAIN all_issues : all_issues[m].source = Labels[k]}

\* C5 as stated: every reported issue mentioning "counters unavailable" is
\* in the filtered list when there is no stress data and absent from it
\* when there is.
C5_CountersIssueFollowsStress ==
    ipc = "done" =>
        \A k \in 1..3 : \A j \in DOMAIN StageOf(k).issues :
            LET d == StageOf(k).issues[j]
            IN MentionsCounters(d) => (Survives(k, d) <=> ~stress.present)

\* C5 amended: an issue mentioning "counters unavailable" is absent from
\* the filtered list when stress data exists; when no stress data exists it
\* is in the filtered list provided it does not also mention
\* "pcie link degradation".
C5_CountersIssueFollowsStressUnlessPcie ==
    ipc = "done" =>
        \A k \in 1..3 : \A j \in DOMAIN StageOf(k).issues :
            LET d == StageOf(k).issues[j]
            IN MentionsCounters(d) =>
                  /\ stress.present => ~Survives(k, d)
                  /\ (~stress.present /\ ~MentionsPcie(d)) => Survives(k, d)

\* C5 witness: without stress data the inventory stage's "ECC counters
\* unavailable" survives while an issue mentioning both phrases is dropped.
C5_Witness ==
    /\ ipc = "done" /\ ~stress.present /\ inventory.present
    /\ inventory.issues = <<IssueEccCounters, IssuePcieAndEcc>>
    /\ all_issues = <<[issue |-> IssueEccCounters, source |-> "Inventory"]>>

\* C6: no issue mentioning "pcie link degradation", in any letter case, is
\* in the filtered list, whichever stage reported it and with or without
\* stress data.
C6_PcieIssueNeverSurvives ==
    ipc = "done" =>
        \A m \in DOMAIN all_issues : ~MentionsPcie(all_issues[m].issue)

\* C6 witness: the install stage reported "PCIe Link Degradation" (mixed
\* case), there is no stress data, and the filtered list is empty.
C6_Witness ==
    /\ ipc = "done" /\ ~stress.present /\ install.present
    /\ install.issues = <<IssuePcieLink>>
    /\ all_issues = <<>>

\* C7: a present stage with raw verdict WARN is reported PASS when none of
\* its issues survived and WARN when one did; raw FAIL is reported FAIL.
C7_WarnUpgradeFailStays ==
    ipc = "done" =>
        \A k \in 1..3 :
            StageOf(k).present =>
                /\ (StageOf(k).overall = "WARN" /\ SurvivingOf(k) = {})
                      => verdicts[k] = <<Labels[k], "PASS">>
                /\ (StageOf(k).overall = "WARN" /\ SurvivingOf(k) # {})
                      => verdicts[k] = <<Labels[k], "WARN">>
                /\ StageOf(k).overall = "FAIL"
                      => verdicts[k] = <<Labels[k], "FAIL">>

\* C7 witness: inventory WARN with its only issue suppressed becomes PASS
\* and stress FAIL with its only issue suppressed stays FAIL.
C7_Witness ==
    /\ ipc = "done"
    /\ inventory = StageData("WARN", <<IssueEccCounters>>)
    /\ stress = StageData("FAIL", <<IssuePcieLink>>)
    /\ all_issues = <<>>
    /\ verdicts[2] = <<"Inventory", "PASS">>
    /\ verdicts[3] = <<"Stress Test", "FAIL">>

VerdictSet == {verdicts[k][2] : k \in DOMAIN verdicts}

\* C8: the overall verdict is FAIL if any stage verdict is FAIL, else WARN
\* if any is WARN, else PASS if any is PASS, else N/A.
C8_OverallIsWorst ==
    ipc = "done" =>
        overall = (IF "FAIL" \in VerdictSet THEN "FAIL"
                   ELSE IF "WARN" \in VerdictSet THEN "WARN"
                   ELSE IF "PASS" \in VerdictSet THEN "PASS"
                   ELSE "N/A")

\* C8 witness: (Install, PASS), (Inventory, WARN with a surviving issue),
\* (Stress, FAIL) gives FAIL.
C8_Witness ==
    /\ ipc = "done"
    /\ verdicts = << <<"Install", "PASS">>, <<"Inventory", "WARN">>, <<"Stress Test", "FAIL">> >>
    /\ SurvivingOf(2) # {}
    /\ overall = "FAIL"


(***************************************************************************)
(* Claims: storage merger                                                  *)
(***************************************************************************)
\* the devices of source 1 (block devices), 2 (RAID members and spares),
\* 3 (resource-enumeration disks)
SourceDevices(src) ==
    CASE src = 1 -> machine.physicalblockdevice_set
      [] src = 2 -> RaidMembers(machine.raid_set)
      [] src = 3 -> machine_resources.storage.disks
SourceType(src) == <<"block", "raid_member", "disk">>[src]
SourcesWith(sn) ==
    {src \in 1..3 : \E i \in DOMAIN SourceDevices(src) : SourceDevices(src)[i].serial = sn}
RecordsWith(sn) == {k \in DOMAIN devs : devs[k].serial = sn}

\* C9: for a non-empty serial carried by devices of two different sources,
\* the returned list holds exactly one record with that serial, built from
\* the first of those sources in priority order.
C9_OneRecordPerSharedSerial ==
    spc = "done" =>
        \A sn \in Serials \ {""} :
            Cardinality(SourcesWith(sn)) >= 2 =>
                /\ Cardinality(RecordsWith(sn)) = 1
                /\ \A k \in RecordsWith(sn) :
                      devs[k].type = SourceType(SetMin(SourcesWith(sn)))

(***************************************************************************)
(* Claims: NIC grouping                                                    *)
(***************************************************************************)
\* the MAC addresses explored, by their first five octets
OctetFamilies == {{MacEE01, MacEE02, MacEE03Caps, MacEE04Pad}, {MacEF01, MacEF02}}
PortsOfFamily(fam) == {i \in DOMAIN nics : nics[i].mac \in fam}
CardsOfFamily(fam) ==
    {c \in DOMAIN cards : \E j \in DOMAIN cards[c].macs : cards[c].macs[j] \in fam}

\* C10: the ports whose MACs share their first five octets are all in one
\* card, whose port count is the number of input ports with that prefix,
\* and no other card holds a port with that prefix.
C10_OneCardPerMacPrefix ==
    npc = "done" =>
        \A fam \in OctetFamilies :
            PortsOfFamily(fam) # {} =>
                /\ Cardinality(CardsOfFamily(fam)) = 1
                /\ \A c \in CardsOfFamily(fam) :
                      /\ cards[c].ports = Cardinality(PortsOfFamily(fam))
                      /\ Len(cards[c].macs) = cards[c].ports
                      /\ \A j \in DOMAIN cards[c].macs : cards[c].macs[j] \in fam

\* C10 witness: ports aa:bb:cc:dd:ee:01, aa:bb:cc:dd:ef:01 and
\* AA:BB:CC:DD:EE:03 (interleaved, mixed case) give a two-port card and a
\* one-port card.
C10_Witness ==
    /\ npc = "done"
    /\ nics = <<Port(MacEE01), Port(MacEF01), Port(MacEE03Caps)>>
    /\ cards = <<[ports |-> 2, macs |-> <<MacEE03Caps, MacEE01>>],
                 [ports |-> 1, macs |-> <<MacEF01>>]>>



(***************************************************************************)
(* Claims: the three passes of the resolver                                *)
(***************************************************************************)
InRange(c, n) == c.some /\ c.v >= 0 /\ c.v < n
Accepted(c, n) == IF InRange(c, n) THEN c ELSE None

\* the number named by the first "GPU <digits>" of the info texts explored
FirstGpuMention(info, n) ==
    IF info = InfoGpu(n - 1) \/ info = InfoGpuRemap(n - 1) THEN Some(n - 1)
    ELSE IF info = InfoGpu(0) THEN Some(0)
    ELSE IF info = InfoTwoGpus(n - 1, 9) THEN Some(n - 1)
    ELSE IF info = InfoTwoGpus(9, 0) THEN Some(9)
    ELSE None

FieldPresent(r) == r.gpu_id.t # "none"
FieldIsInteger(r) == r.gpu_id.t = "int"

\* C18 as stated: a present device-id field is the candidate and the info
\* text is searched only when the field is absent; the candidate is accepted
\* only within [0, N).
C18_FieldPresentElseInfo ==
    gpc = "done" =>
        \A i \in DOMAIN per_gpu :
            map_pass1[i] =
                IF FieldPresent(per_gpu[i])
                THEN (IF FieldIsInteger(per_gpu[i])
                      THEN Accepted(Some(per_gpu[i].gpu_id.v), n_gpus) ELSE None)
                ELSE Accepted(FirstGpuMention(per_gpu[i].info, n_gpus), n_gpus)

\* C18 amended: a device-id field that is present and converts to an
\* integer is the candidate; when the field is absent or does not convert,
\* the first "GPU <digits>" of the info text is the candidate; the candidate
\* is accepted only within [0, N), otherwise the entry stays unresolved.
C18_IntegerFieldElseInfo ==
    gpc = "done" =>
        \A i \in DOMAIN per_gpu :
            map_pass1[i] =
                IF FieldPresent(per_gpu[i]) /\ FieldIsInteger(per_gpu[i])
                THEN Accepted(Some(per_gpu[i].gpu_id.v), n_gpus)
                ELSE Accepted(FirstGpuMention(per_gpu[i].info, n_gpus), n_gpus)

\* C18 witness: one array holds an out-of-range field beside an in-range
\* mention (unresolved), an absent field with two mentions (first one
\* taken) and a field that does not convert (mention taken).
C18_Witness ==
    /\ gpc = "done" /\ n_gpus = 3 /\ Len(per_gpu) = 3
    /\ per_gpu[1] = Entry(IntId(3), InfoGpu(0))
    /\ per_gpu[2] = Entry(NoId, InfoTwoGpus(2, 9))
    /\ per_gpu[3] = Entry(StrId(StrAbc), InfoGpu(2))
    /\ map_pass1 = <<None, Some(2), Some(2)>>


\* the info texts explored that mention "row remapping"
MentionsRemap(info) ==
    info = InfoRemap \/ \E k \in 0..9 : info = InfoGpuRemap(k)

ResolvedIds(m) == {m[i].v : i \in {j \in DOMAIN m : m[j].some}}
\* number of elements of S below x
RankIn(S, x) == Cardinality({y \in S : y < x})
\* the element of S with as many elements of S below it as T has below i
Paired(S, T, i) == CHOOSE g \in S : RankIn(S, g) = RankIn(T, i)

\* positions left unresolved by pass 1 whose info mentions row remapping
RemapPositions ==
    {i \in DOMAIN per_gpu : ~map_pass1[i].some /\ MentionsRemap(per_gpu[i].info)}
RemainingSkipped == remap_skipped \ ResolvedIds(map_pass1)

\* C19: pass 2 pairs the unresolved row-remapping entries, in array order,
\* with the ids of the remap-skipped set not resolved in the array, in
\* ascending order, only when both counts are equal; otherwise it assigns
\* nothing; an id set by pass 1 is never changed.
C19_Pass2PairsOnEqualCount ==
    gpc = "done" =>
        /\ Len(map_pass2) = Len(map_pass1)
        /\ \A i \in DOMAIN map_pass1 :
              IF /\ i \in RemapPositions
                 /\ Cardinality(RemapPositions) = Cardinality(RemainingSkipped)
              THEN map_pass2[i] = Some(Paired(RemainingSkipped, RemapPositions, i))
              ELSE map_pass2[i] = map_pass1[i]

\* C19 witness: N = 3, two row-remapping entries around the explicit id 1
\* receive the skipped ids 0 and 2 in order.
C19_Witness ==
    /\ gpc = "done" /\ n_gpus = 3
    /\ per_gpu = <<Entry(NoId, InfoRemap), Entry(IntId(1), InfoOk), Entry(NoId, InfoRemap)>>
    /\ remap_skipped = {0, 2}
    /\ map_pass1 = <<None, Some(1), None>>
    /\ map_pass2 = <<Some(0), Some(1), Some(2)>>

\* positions left unresolved by pass 2, ids of 0..N-1 not yet assigned
UnknownPositions == {i \in DOMAIN map_pass2 : ~map_pass2[i].some}
MissingIds == (0..(n_gpus - 1)) \ ResolvedIds(map_pass2)

\* C20: pass 3 gives the unresolved positions, in array order, the
\* unassigned ids in ascending order when both counts are equal; otherwise
\* an unresolved position gets its own array index when that is below N
\* and 0 when it is not; ids set by passes 1 and 2 are never changed.
C20_Pass3EliminationOrIndex ==
    gpc = "done" =>
        /\ Len(gpu_map) = Len(map_pass2)
        /\ \A i \in DOMAIN map_pass2 :
              IF i \notin UnknownPositions THEN gpu_map[i] = map_pass2[i]
              ELSE IF Cardinality(UnknownPositions) = Cardinality(MissingIds)
                   THEN gpu_map[i] = Some(Paired(MissingIds, UnknownPositions, i))
                   ELSE gpu_map[i] = Some(IF i - 1 < n_gpus THEN i - 1 ELSE 0)

\* C20 witness: N = 2 and three anonymous entries: the counts differ, the
\* third entry stands at an index that is not below N and gets id 0.
C20_Witness ==
    /\ gpc = "done" /\ n_gpus = 2 /\ Len(per_gpu) = 3
    /\ map_pass2 = <<None, None, None>>
    /\ gpu_map = <<Some(0), Some(1), Some(0)>>

\* the mapping of the same array in a report that holds no other test
OwnMapping ==
    _build_gpu_id_map(per_gpu, n_gpus, SkippedByTest(per_gpu, n_gpus))

\* C17 as stated: the mapping of a test is determined by its result array
\* and N alone, so it is the mapping the array gets in a report without
\* the other tests.
C17_MappingFromOwnArrayAlone ==
    gpc = "done" => gpu_map = OwnMapping

\* C17 amended: the mapping depends on the other tests of the report only
\* through the remap-skipped set used by pass 2: when pass 1 leaves no
\* row-remapping entry of the array unresolved, the mapping is the one the
\* array gets in a report without the other tests.
C17_OtherTestsReachOnlyPass2 ==
    (gpc = "done" /\ RemapPositions = {}) => gpu_map = OwnMapping

\* C17 witness: other tests filled the skipped set, the array contributes
\* nothing to it, and an anonymous entry was resolved.
C17_Witness ==
    /\ gpc = "done" /\ n_gpus = 3
    /\ RemapPositions = {}
    /\ SkippedByTest(per_gpu, n_gpus) = {}
    /\ remap_skipped = {1, 2}
    /\ per_gpu = <<Entry(NoId, InfoOk), Entry(IntId(0), InfoOk), Entry(NoId, InfoOk)>>
    /\ gpu_map = <<Some(1), Some(0), Some(2)>>


(***************************************************************************)
(* Claims: test matrix                                                     *)
(***************************************************************************)
\* the entries of the row's test mapped to accelerator index g
MappedTo(g) == {i \in DOMAIN gpu_map : gpu_map[i] = Some(g)}
ShowsResult(c) == c \in {CellPass, CellFail, CellWarn, CellSkip}

\* C16: in a rendered row the column of an accelerator index to which no
\* entry of the test is mapped holds the '?' cell, and a column holding a
\* pass, fail, warn or skip cell has an entry of the test mapped to it.
C16_UnmappedColumnIsUnknown ==
    gpc = "rendered" =>
        /\ Len(cells) = n_gpus
        /\ \A g \in 0..(n_gpus - 1) :
              /\ MappedTo(g) = {} => cells[g + 1] = CellUnknown
              /\ ShowsResult(cells[g + 1]) => MappedTo(g) # {}

\* C16 witness: N = 3, a two-entry row: columns 2 and 0 show a fail and a
\* pass, column 1 has no entry and shows '?'.
C16_Witness ==
    /\ gpc = "rendered" /\ n_gpus = 3
    /\ per_gpu = <<Entry(IntId(2), InfoOk), Entry(IntId(0), InfoOk)>>
    /\ statuses = <<StatusFail, StatusPass>>
    /\ MappedTo(1) = {}
    /\ cells = <<CellPass, CellUnknown, CellFail>>


(***************************************************************************)
(* Claims: report without sources                                          *)
(***************************************************************************)
NoSourceAtAll == ~install.present /\ ~inventory.present /\ ~stress.present

\* C15: a stage whose data is absent gets the verdict N/A; with all three
\* stages absent every stage verdict and the overall verdict are N/A and
\* the issue list is empty.
C15_AbsentStageIsNA ==
    ipc = "done" =>
        /\ Len(verdicts) = 3
        /\ \A k \in 1..3 : ~StageOf(k).present => verdicts[k] = <<Labels[k], "N/A">>
        /\ NoSourceAtAll => (overall = "N/A" /\ all_issues = <<>>)

\* C15 witness: the report was generated from three absent payloads.
C15_Witness ==
    /\ ipc = "done" /\ NoSourceAtAll
    /\ verdicts = <<<<"Install", "N/A">>, <<"Inventory", "N/A">>, <<"Stress Test", "N/A">>>>
    /\ overall = "N/A"


(***************************************************************************)
(* Claims: NIC enrichment                                                  *)
(***************************************************************************)
\* the hardware address a mac text of the explored records stands for
AddressOf(mac) ==
    IF mac \in {MacEE01, MacEE01CapsPad} THEN "ee:01"
    ELSE IF mac = MacEE02 THEN "ee:02"
    ELSE "none"
\* secondary records with the address of primary port i
MatchesOf(i) ==
    {k \in DOMAIN lshw_nics :
        /\ AddressOf(lshw_nics[k].mac) # "none"
        /\ AddressOf(lshw_nics[k].mac) = AddressOf(primary_nics[i].mac)}
LacksProduct(n) == n.product = ""
LacksVendor(n) == n.vendor = "" \/ n.vendor = "--"

\* C13: enrichment keeps the number, order and macs of the ports; a port
\* without a mac match is unchanged; a product (vendor) the primary record
\* has is unchanged; a product (vendor) the primary record lacks is taken
\* from a secondary record with the same mac, and from nowhere else.
C13_EnrichNeverOverwrites ==
    epc = "done" =>
        /\ Len(enriched) = Len(primary_nics)
        /\ \A i \in DOMAIN primary_nics :
              /\ enriched[i].mac = primary_nics[i].mac
              /\ MatchesOf(i) = {} => enriched[i] = primary_nics[i]
              /\ ~LacksProduct(primary_nics[i]) =>
                    enriched[i].product = primary_nics[i].product
              /\ ~LacksVendor(primary_nics[i]) =>
                    enriched[i].vendor = primary_nics[i].vendor
              /\ (MatchesOf(i) # {} /\ LacksProduct(primary_nics[i])) =>
                    \E k \in MatchesOf(i) : enriched[i].product = lshw_nics[k].product
              /\ (MatchesOf(i) # {} /\ LacksVendor(primary_nics[i])) =>
                    \E k \in MatchesOf(i) : enriched[i].vendor = lshw_nics[k].vendor

\* C13 witness: of two ports the first has a product and the placeholder
\* vendor and matches a secondary record, the second has no mac: the first
\* keeps its product and takes the vendor, the second is unchanged.
C13_Witness ==
    /\ epc = "done"
    /\ primary_nics = <<Nic(MacEE01CapsPad, "I350", "--"), Nic(MacNone, "", "")>>
    /\ lshw_nics = <<Nic(MacEE01, "ConnectX", "Mellanox")>>
    /\ enriched = <<Nic(MacEE01CapsPad, "I350", "Mellanox"), Nic(MacNone, "", "")>>


(***************************************************************************)
(* Claims: unit conversion                                                 *)
(***************************************************************************)
Str16p0   == <<"1","6",".","0">>
Str16     == <<"1","6">>
Str1p5    == <<"1",".","5">>
Str2000p0 == <<"2","0","0","0",".","0">>
Str500p1  == <<"5","0","0",".","1">>
Str1862p6 == <<"1","8","6","2",".","6">>
Str17p2   == <<"1","7",".","2">>

InBytes == size_units \in {"bytes", NoUnits}
\* t tenths is a nearest number of tenths to raw / divisor
NearestTenth(raw, divisor, t) ==
    /\ 2 * (10 * raw - t * divisor) <= divisor
    /\ 2 * (t * divisor - 10 * raw) <= divisor
\* the sizes small enough to be compared in machine integers
SmallSize ==
    CASE size_text = Size16GiBInMiB -> 16384
      [] size_text = Size16 -> 16
      [] size_text = SizePadded -> 1536
      [] OTHER -> 0

\* C12: memory sizes are taken to GiB with base 1024 (bytes / 1024^3,
\* KiB / 1024^2, MiB / 1024, GiB unchanged) and storage sizes in bytes to
\* GB with base 1000: 17179869184 bytes of memory give 16.0 and
\* 2000000000000 bytes of storage give 2000.0.
C12_MemoryBinaryStorageDecimal ==
    upc = "done" =>
        /\ (size_text = Size16GiBInBytes /\ InBytes) => Repr(mem_size_gb) = Str16p0
        /\ (size_text = Size16GiBInKiB /\ size_units = "KiB") => Repr(mem_size_gb) = Str16p0
        /\ (size_text = Size16GiBInMiB /\ size_units = "MiB") => Repr(mem_size_gb) = Str16p0
        /\ (size_text = Size16 /\ size_units = "GiB") => Repr(mem_size_gb) = Str16
        /\ (size_text = SizePadded /\ size_units = "MiB") => Repr(mem_size_gb) = Str1p5
        /\ (SmallSize > 0 /\ size_units = "MiB") =>
              NearestTenth(SmallSize, 1024, DigitsToInt(mem_size_gb.mag))
        /\ (SmallSize > 0 /\ size_units = "KiB") =>
              NearestTenth(SmallSize, 1024 * 1024, DigitsToInt(mem_size_gb.mag))
        /\ (size_text = Size2TB /\ InBytes) =>
              (Repr(lshw_disk_gb) = Str2000p0 /\ Repr(mem_size_gb) = Str1862p6)
        /\ size_text = Size2TB => Repr(block_size_gb) = Str2000p0
        /\ size_text = Size500GB => Repr(block_size_gb) = Str500p1
        /\ (size_text = Size16GiBInBytes /\ InBytes) =>
              (Repr(lshw_disk_gb) = Str17p2 /\ Repr(block_size_gb) = Str17p2)

\* C12 witness: 2000000000000 bytes were normalised: 2000.0 as a storage
\* size, 1862.6 as a memory size.
C12_Witness ==
    /\ upc = "done" /\ size_text = Size2TB /\ size_units = "bytes"
    /\ Repr(block_size_gb) = Str2000p0
    /\ Repr(lshw_disk_gb) = Str2000p0
    /\ Repr(mem_size_gb) = Str1862p6


(***************************************************************************)
(* Claims: memory-module exclusions                                        *)
(***************************************************************************)
ExclusionKeywords == {StrCache, StrSystemBoard, StrMotherboard}
HasExclusionKeyword(text) == \E kw \in ExclusionKeywords : Contains(Lower(text), kw)

\* C11: no record returned by the hardware-tree extractor has a size that
\* is not greater than 0, or a description or a slot containing one of the
\* exclusion keywords cache, system board, motherboard.
C11_NoEmptyOrExcludedModule ==
    lpc = "done" =>
        \A i \in DOMAIN lshw_dimms :
            /\ IsPositive(lshw_dimms[i].size_gb)
            /\ ~HasExclusionKeyword(lshw_dimms[i].description)
            /\ ~HasExclusionKeyword(lshw_dimms[i].slot)


(***************************************************************************)
(* Claims: extractor error handling                                        *)
(***************************************************************************)
\* C14: an extractor given an absent payload, or a payload whose parsing
\* failed (the document is no document, or reading one of its entries
\* raised), returns the empty collection.
C14_ParseFailureGivesEmpty ==
    (rpc = "done" /\ (resources.state = "absent" \/ res_warned)) => res_dimms = <<>>


(***************************************************************************)
(* Claims: distinct ids within one test                                    *)
(***************************************************************************)
\* the ids set in a mapping are pairwise distinct
DistinctIds(m) ==
    \A i, j \in DOMAIN m : (i # j /\ m[i].some /\ m[j].some) => m[i].v # m[j].v
AssignedIds(m) == {m[i].v : i \in DOMAIN m}
AtMostNDistinctAfterPass1 ==
    gpc = "done" /\ Len(per_gpu) <= n_gpus /\ DistinctIds(map_pass1)

\* C27 as stated: an array of at most N entries whose pass-1 ids are
\* pairwise distinct is mapped to pairwise distinct ids, and to a
\* permutation of 0..N-1 when it has exactly N entries.
C27_DistinctIdsUpToN ==
    AtMostNDistinctAfterPass1 =>
        /\ DistinctIds(gpu_map)
        /\ Len(per_gpu) = n_gpus => AssignedIds(gpu_map) = 0..(n_gpus - 1)

\* C27 amended: the ids are pairwise distinct when pass 3 fills by
\* elimination, that is when as many entries are unresolved after pass 2
\* as ids of 0..N-1 are unassigned; an array of exactly N entries is
\* always in that case and is mapped to a permutation of 0..N-1.
C27_DistinctIdsOnElimination ==
    AtMostNDistinctAfterPass1 =>
        /\ DistinctIds(map_pass2)
        /\ Cardinality(UnknownPositions) = Cardinality(MissingIds) => DistinctIds(gpu_map)
        /\ Len(per_gpu) = n_gpus =>
              /\ Cardinality(UnknownPositions) = Cardinality(MissingIds)
              /\ DistinctIds(gpu_map)
              /\ AssignedIds(gpu_map) = 0..(n_gpus - 1)

\* C27 witness: N = 3, the explicit id 2 stands first and two anonymous
\* entries follow: elimination gives them 0 and 1.
C27_Witness ==
    /\ gpc = "done" /\ n_gpus = 3
    /\ map_pass1 = <<Some(2), None, None>>
    /\ UnknownPositions = {2, 3}
    /\ gpu_map = <<Some(2), Some(0), Some(1)>>


(***************************************************************************)
(* Claims: storage identity                                                *)
(***************************************************************************)
\* positions of the devices of a source that have no serial and the name nm
UnserialledIn(src, nm) ==
    {i \in DOMAIN SourceDevices(src) :
        SourceDevices(src)[i].serial = "" /\ SourceDevices(src)[i].name = nm}
SourcesNaming(nm) == {src \in 1..3 : UnserialledIn(src, nm) # {}}
UnserialledRecords(nm) == {k \in DOMAIN devs : devs[k].serial = "" /\ devs[k].name = nm}

\* C23: when devices of two different sources have an empty serial and the
\* same logical name (one such device per source), the returned list holds
\* exactly one record with that name and no serial, built from the first
\* of those sources in priority order.
C23_NameIsIdentityWithoutSerial ==
    spc = "done" =>
        \A nm \in DiskNames :
            (/\ Cardinality(SourcesNaming(nm)) >= 2
             /\ \A src \in SourcesNaming(nm) : Cardinality(UnserialledIn(src, nm)) = 1) =>
                /\ Cardinality(UnserialledRecords(nm)) = 1
                /\ \A k \in UnserialledRecords(nm) :
                      devs[k].type = SourceType(SetMin(SourcesNaming(nm)))

\* the records built from the direct block devices, in input order
BlockRecords ==
    [i \in DOMAIN machine.physicalblockdevice_set |->
        DevRecord(machine.physicalblockdevice_set[i], "block", FALSE)]

\* C28: no two returned records share a non-empty serial, whatever the
\* input, and the direct block devices all appear, in input order.
C28_SerialsUniqueBlockDevicesKept ==
    spc = "done" =>
        /\ \A j, k \in DOMAIN devs :
              (j # k /\ devs[j].serial # "") => devs[j].serial # devs[k].serial
        /\ Len(devs) >= Len(BlockRecords)
        /\ SubSeq(devs, 1, Len(BlockRecords)) = BlockRecords


(***************************************************************************)
(* Claims: what the issue filter leaves alone                              *)
(***************************************************************************)
\* a is b with some elements left out
RECURSIVE IsSubsequence(_, _)
IsSubsequence(a, b) ==
    IF a = <<>> THEN TRUE
    ELSE IF b = <<>> THEN FALSE
    ELSE IF Head(a) = Head(b) THEN IsSubsequence(Tail(a), Tail(b))
    ELSE IsSubsequence(a, Tail(b))

StagePayloads == <<install, inventory, stress>>
\* the issues a stage reported, tagged; those among them naming neither phrase
ReportedBy(k) ==
    [j \in DOMAIN StagePayloads[k].issues |->
        [issue |-> StagePayloads[k].issues[j], source |-> Labels[k]]]
NamesNeitherPhrase(i) ==
    /\ ~Contains(Lower(i.issue), StrCountersUnavailable)
    /\ ~Contains(Lower(i.issue), StrPcieLinkDegradation)
UntouchedBy(k) == SelectSeq(ReportedBy(k), NamesNeitherPhrase)

\* C30: every issue naming neither "counters unavailable" nor "pcie link
\* degradation" is in the filtered list with its stage, in the original
\* order; the filtered list holds only reported issues; a stage verdict
\* other than WARN comes out as it was reported.
C30_FilterLeavesTheRestAlone ==
    ipc = "done" =>
        /\ IsSubsequence(UntouchedBy(1) \o UntouchedBy(2) \o UntouchedBy(3), all_issues)
        /\ IsSubsequence(all_issues, ReportedBy(1) \o ReportedBy(2) \o ReportedBy(3))
        /\ \A k \in 1..3 :
              StagePayloads[k].overall # "WARN" =>
                  verdicts[k] = <<Labels[k], StagePayloads[k].overall>>

\* C30 witness: the Inventory stage failed with a link-degradation issue
\* and a fan issue: the fan issue is kept with its stage and the verdict
\* stays FAIL.
C30_Witness ==
    /\ ipc = "done"
    /\ inventory = StageData("FAIL", <<IssuePcieLink, IssueFan>>)
    /\ all_issues = <<[issue |-> IssueFan, source |-> "Inventory"]>>
    /\ verdicts[2] = <<"Inventory", "FAIL">>


FigureInDescription(desc) ==
    CASE desc = Desc3200MHz     -> 3200
      [] desc = Desc400MHz      -> 400
      [] desc = Desc400Then3200 -> 400
      [] OTHER                  -> 0
MhzOfSettings(settings) ==
    CASE settings = <<Setting(StrSpeed, Str4800)>> -> 4800
      [] settings = <<Setting(StrConfiguredSpeedCaps, Str4800MHzInHz)>> -> 4800
      [] settings = <<Setting(StrSpeed, Str4800),
                      Setting(StrConfiguredClockSpeed, Str5600MTs)>> -> 5600
      [] settings = <<Setting(StrSpeed, Str4800), Setting(StrSpeed, <<"0">>)>> -> 4800
      [] OTHER -> 0
MhzOfClock(clock) == IF clock = ClockEl(Str2400MHzInHz) THEN 2400 ELSE 0

FirstSuccessful(node) ==
    IF FigureInDescription(node.description) >= 800
    THEN FigureInDescription(node.description)
    ELSE IF MhzOfSettings(node.settings) # 0 THEN MhzOfSettings(node.settings)
    ELSE MhzOfClock(node.clock)

SpeedChainRan ==
    lpc = "done" /\ lshw_xml.state = "ok" /\ Len(lshw_xml.nodes) = 1
    /\ lshw_xml.nodes[1] \in SpeedNodes

\* C21: the clock speed of a module is that of the first strategy that
\* yields one: the MHz figure of the description if it is at least 800,
\* else the speed setting (Hz turned into MHz above 100000), else the bus
\* clock; once the description yields a speed, settings and clock are
\* without effect.
C21_FirstSuccessfulStrategyWins ==
    SpeedChainRan =>
        /\ Len(lshw_dimms) = 1
        /\ lshw_dimms[1].clock_mhz = FirstSuccessful(lshw_xml.nodes[1])

\* a description with 3200 MHz beside a setting of 4800 and a clock of 2400
C21_Witness ==
    /\ SpeedChainRan
    /\ lshw_xml.nodes[1].description = Desc3200MHz
    /\ lshw_xml.nodes[1].settings = <<Setting(StrSpeed, Str4800)>>
    /\ lshw_xml.nodes[1].clock = ClockEl(Str2400MHzInHz)
    /\ lshw_dimms[1].clock_mhz = 3200

(***************************************************************************)
(* Claims: firmware-text speeds                                            *)
(***************************************************************************)
\* the blocks of a text as the specification delimits them: a block starts
\* at a "Memory Device" line and runs up to the next such line, or up to
\* the first blank line that follows a Locator line of the block, or to
\* the end of the text
LocatorLines == {LineLocatorA1, LineLocatorB1}
BlockStartsOf(lines) == {i \in DOMAIN lines : lines[i] = LineMemoryDevice}
BlockEndOf(lines, start) ==
    LET ends == {e \in (start + 1)..Len(lines) :
                    \/ lines[e] = LineMemoryDevice
                    \/ /\ lines[e] = LineBlank
                       /\ \E k \in (start + 1)..(e - 1) : lines[k] \in LocatorLines}
    IN IF ends = {} THEN Len(lines) + 1 ELSE SetMin(ends)
BlockOf(lines, start) == SubSeq(lines, start + 1, BlockEndOf(lines, start) - 1)

\* the Locator value of a block (its last Locator line), <<>> without one
LocatorOfBlock(block) ==
    LET at == {k \in DOMAIN block : block[k] \in LocatorLines}
    IN IF at = {} THEN <<>>
       ELSE IF block[SetMax(at)] = LineLocatorA1 THEN SlotDimmA1 ELSE SlotDimmB1
\* the speed of a block: the configured speed when it is a positive number,
\* else the nominal speed, 0 without either
SpeedOfBlock(block) ==
    IF \E k \in DOMAIN block : block[k] = LineConf2933 THEN 2933
    ELSE IF \E k \in DOMAIN block : block[k] = LineSpeed3200 THEN 3200
    ELSE 0
YieldingBlocks(lines) ==
    {b \in BlockStartsOf(lines) :
        LocatorOfBlock(BlockOf(lines, b)) # <<>> /\ SpeedOfBlock(BlockOf(lines, b)) > 0}
\* one entry per locator; of two blocks with one locator the later one stays
EntriesOfBlocks(lines) ==
    {[slot |-> LocatorOfBlock(BlockOf(lines, b)), speed |-> SpeedOfBlock(BlockOf(lines, b))] :
        b \in {c \in YieldingBlocks(lines) :
                 \A later \in YieldingBlocks(lines) :
                    later > c => LocatorOfBlock(BlockOf(lines, later))
                                 # LocatorOfBlock(BlockOf(lines, c))}}

\* C22: the result of the firmware-text extractor holds exactly the entries
\* locator -> speed of the blocks that carry a Locator and a positive speed,
\* a block ending at the next "Memory Device" line or at a blank line after
\* its Locator; no entry holds a value of another block.
C22_EveryBlockYieldsItsEntry ==
    (dpc = "done" /\ dmi_text.present) =>
        Range(dmi_speeds) = EntriesOfBlocks(dmi_text.lines)

\* C26: enrichment from the firmware text keeps the number of modules,
\* changes nothing but clock speeds, and changes a clock speed only where
\* it was empty (0): a non-zero speed of the primary source stays.
C26_OnlyFillsEmptyClock ==
    dpc = "done" /\ dimms_in # <<>> =>
        /\ Len(dimms_out) = Len(dimms_in)
        /\ \A i \in DOMAIN dimms_in :
              /\ dimms_out[i].slot = dimms_in[i].slot
              /\ dimms_in[i].clock_mhz # 0 =>
                    dimms_out[i].clock_mhz = dimms_in[i].clock_mhz

(***************************************************************************)
(* Claims: peripheral devices                                              *)
(***************************************************************************)
\* the category the classification rules give an explored item, read off
\* the item: flat list (class code or words, driver, product words, network
\* tried first) and nested list (class prefix and the shorter driver lists)
RuleCategoryFlat(item) ==
    CASE item \in {ItemEthernetClass, ItemEthernetRaid, ItemIxgbeNoAddress} -> "network"
      [] item \in {ItemNvmeDriver, ItemMassStorage} -> "storage"
      [] OTHER -> "none"
RuleCategoryNested(item) ==
    CASE item = ItemEthernetClass -> "network"
      [] item = ItemNvmeDriver -> "storage"
      [] OTHER -> "none"

\* the entries of the items of a list that the rules put in a category
EntriesByRule(items, cat, RuleCategory(_)) ==
    LET InCategory(item) == RuleCategory(item) = cat
        kept == SelectSeq(items, InCategory)
    IN [i \in DOMAIN kept |-> PciEntry(CopyOf(kept[i]))]
EntriesOfSection(items) == [i \in DOMAIN items |-> PciEntry(CopyOf(items[i]))]

\* the devices categorised network, and storage, in the order of the lists
CategorisedNetwork ==
    EntriesOfSection(pci_resources.network)
    \o EntriesByRule(pci_resources.pci, "network", RuleCategoryFlat)
    \o EntriesByRule(pci_resources.nested, "network", RuleCategoryNested)
CategorisedStorage ==
    EntriesOfSection(StorageIterated(pci_resources.storage))
    \o EntriesByRule(pci_resources.pci, "storage", RuleCategoryFlat)
    \o EntriesByRule(pci_resources.nested, "storage", RuleCategoryNested)

\* C24: the network list holds only devices categorised network and the
\* storage list only devices categorised storage, by section, class code,
\* driver or product keyword; a device that matches no rule is in neither
\* list, and a flat-list device that matches a rule of both kinds is in
\* the network list only.
C24_OnlyCategorisedRetained ==
    ppc = "done" =>
        /\ IsSubsequence(pci_devices.network, CategorisedNetwork)
        /\ IsSubsequence(pci_devices.storage, CategorisedStorage)

\* C25: every retained device has a bus address, whatever the shape of the
\* payload.
C25_RetainedHaveAddress ==
    ppc = "done" =>
        /\ \A i \in DOMAIN pci_devices.network : pci_devices.network[i].pci_address # <<>>
        /\ \A i \in DOMAIN pci_devices.storage : pci_devices.storage[i].pci_address # <<>>

=============================================================================
